---- MODULE Spec2Model ----
(***************************************************************************)
(* A model of the newsapi-rs request/response pipeline: the retry policy   *)
(* (src/src/retry.rs), the request builders (src/src/model.rs), the error  *)
(* classifier, the query encoder and the client calls (src/src/client.rs). *)
(***************************************************************************)
EXTENDS Integers, Naturals, Sequences, FiniteSets, TLC

VARIABLES
    \* ---- one call of retry / retry_blocking (src/src/retry.rs)
    pc,              \* "Idle" | "Attempting" | "Delaying" | "Succeeded" | "Exhausted" |
                     \* "Panicked" | "Cancelled"
    mode,            \* "async" (retry) | "blocking" (retry_blocking)
    strategy,        \* the RetryStrategy argument: [kind, d]
    max_retries,     \* the max_retries argument
    overflow_checks, \* TRUE: the build panics on integer overflow; FALSE: it wraps
    attempt,         \* the local `attempt`
    calls,           \* history: how often operation() was invoked
    inflight,        \* <<>>, or <<w>>: the operation was invoked and the call waits at w
    failures,        \* history: how many of the invocations returned Err
    sleeps,          \* history: how many sleeps were started
    lastOutcome,     \* history: what the latest invocation returned
    lastDelay,       \* history: the Duration handed to the latest sleep
    result,          \* <<>> while the call runs, <<r>> once it has returned r
    \* ---- GetTopHeadlinesRequestBuilder (src/src/model.rs)
    builder,         \* the builder's fields
    given,           \* history: per field, the value the caller last set (None: never)
    built,           \* <<>> before build, <<r>> the Result build returned
    \* ---- parse_error_response_internal (src/src/client.rs)
    response,        \* the (status code, body) handed to the classifier
    classified,      \* <<>> before the call, <<e>> the ApiClientError returned
    \* ---- GetEverythingRequestBuilder (src/src/model.rs)
    ebuilder,        \* the builder's fields
    egiven,          \* history: per field, the value the caller last set (None: never)
    ebuilt,          \* <<>> before build, <<r>> the request build returned
    \* ---- get_endpoint_with_query_params_for_* (src/src/client.rs)
    encEndpoint,     \* which of the three encoders is exercised
    encRequest,      \* the request handed to it
    url,             \* the Url it works on: [path, query]
    encodes,         \* history: how often the encoder ran on url
    firstUrl,        \* history: <<u>>, the url after the first run
    \* ---- one call of get_top_headlines / get_everything / get_sources
    client,          \* the NewsApiClient: [api_key, base_url]
    endpoint,        \* "top_headlines" | "everything" | "sources"
    request,         \* the request argument
    validations,     \* history: how often top_headlines_validate_request ran
    sends,           \* history: how often the transport was invoked
    lastSent,        \* history: <<[url, headers]>> of the latest send
    lastAnswer,      \* history: <<a>>, the transport's latest answer
    \* ---- NewsApiClientBuilder / BlockingNewsApiClientBuilder (src/src/client.rs)
    env,             \* the NEWS_API_KEY variable of the process environment
    cbuilder,        \* <<>> before new / from_env, <<b>> the builder's fields
    explicitKey,     \* history: <<k>>, the key the caller last gave with api_key
    made,            \* <<>> while building, <<r>> how the construction ended
    \* ---- two calls running on one async client
    shared,          \* the client both calls borrow
    tasks,           \* per call, its locals and history
    \* ---- retry_blocking run side by side with retry on the same outcomes
    twin,            \* the locals and history of the retry_blocking call
    \* ---- cancellation of a call (the future retry returns is dropped)
    cancelled        \* <<>>, or <<p>>: cancellation was asked for while pc was p

vars == <<pc, mode, strategy, max_retries, overflow_checks, attempt, calls, failures,
          sleeps, lastOutcome, lastDelay, result, inflight, builder, given, built,
          response,
          classified, ebuilder, egiven, ebuilt, encEndpoint, encRequest, url, encodes,
          firstUrl, client, endpoint, request, validations, sends, lastSent,
          lastAnswer, env, cbuilder, explicitKey, made, shared, tasks, twin,
          cancelled>>

retryVars == <<pc, mode, strategy, max_retries, overflow_checks, attempt, calls,
               failures, sleeps, lastOutcome, lastDelay, result, inflight>>
builderVars == <<builder, given, built>>
classifierVars == <<response, classified>>
ebuilderVars == <<ebuilder, egiven, ebuilt>>
encoderVars == <<encEndpoint, encRequest, url, encodes, firstUrl>>
clientVars ==
    <<client, endpoint, request, validations, sends, lastSent, lastAnswer>>
cbuilderVars == <<env, cbuilder, explicitKey, made>>
tasksVars == <<shared, tasks>>
restVars == <<cbuilderVars, tasksVars, twin, cancelled>>

\* Option<T>: None is <<>>, Some(x) is <<x>>.
None == <<>>
Some(x) == <<x>>
IsSome(o) == o # <<>>

(***************************************************************************)
(* u64 arithmetic.  A u64 is kept as [m, e], standing for m * 2^e, with m   *)
(* odd (or m = 0 and e = 0): the delays of the Exponential strategy reach   *)
(* 2^63 and beyond, which no machine integer of the checker holds.          *)
(***************************************************************************)
U64Bits == 64

Pow2(n) == 2 ^ n

RECURSIVE Norm(_, _)
Norm(m, e) ==
    IF m = 0 THEN [m |-> 0, e |-> 0]
    ELSE IF m % 2 = 0 THEN Norm(m \div 2, e + 1)
    ELSE [m |-> m, e |-> e]

\* A small natural as a u64 (`x as u64`).
U64(n) == Norm(n, 0)

\* TRUE iff m * 2^e does not fit 64 bits (m odd, m < 2^30).
Exceeds(v) ==
    /\ v.m # 0
    /\ \/ v.e >= U64Bits
       \/ /\ U64Bits - v.e <= 30
          /\ v.m >= Pow2(U64Bits - v.e)

\* m * 2^e modulo 2^64.
Wrapped(v) ==
    IF v.m = 0 \/ v.e >= U64Bits THEN [m |-> 0, e |-> 0]
    ELSE IF U64Bits - v.e <= 30 THEN Norm(v.m % Pow2(U64Bits - v.e), v.e)
    ELSE v

\* a * b on u64: whether it overflows, and its wrapped value.
Product(a, b) == Norm(a.m * b.m, a.e + b.e)
MulOverflows(a, b) == Exceeds(Product(a, b))
WrappingMul(a, b) == Wrapped(Product(a, b))

\* 2_u64.pow(exp): whether it overflows, and its wrapped value.
PowOverflows(exp) == exp >= U64Bits
WrappingPow2(exp) == Wrapped([m |-> 1, e |-> exp])

(***************************************************************************)
(* std::time::Duration, at a resolution of half a millisecond: ms whole     *)
(* milliseconds (a u64) and half in {0, 1} further half milliseconds.       *)
(***************************************************************************)
Duration(ms, half) == [ms |-> ms, half |-> half]
FromMillis(ms) == Duration(ms, 0)
FromSecs0 == Duration(U64(0), 0)
\* d.as_millis() as u64: the whole milliseconds, the rest is dropped.
AsMillis(d) == d.ms

(***************************************************************************)
(* The retry policy: retry and retry_blocking, src/src/retry.rs.            *)
(***************************************************************************)
MaxRetries == 3
MaxDelayMs == 2

Modes == {"async", "blocking"}

\* Base delays: the whole and half milliseconds up to MaxDelayMs and a half.
BaseDelays == {Duration(U64(ms), half) : ms \in 0 .. MaxDelayMs, half \in {0, 1}}

RetryStrategy ==
    {[kind |-> "None", d |-> FromSecs0]}
        \cup {[kind |-> k, d |-> d] : k \in {"Constant", "Linear", "Exponential"},
                                      d \in BaseDelays}

\* max_retries: the small values, and the first one that lets `attempt` reach 64.
MaxRetriesValues == (0 .. MaxRetries) \cup {U64Bits + 1}

\* What one invocation of the operation returns: Ok(v) or Err(e), tagged with the
\* number n of the invocation that produced it.
OkValues == {"response"}
ErrKinds == {"Http", "InvalidResponse", "InvalidHeaderValue"}
Outcomes(n) ==
    {[ok |-> TRUE, kind |-> v, n |-> n] : v \in OkValues}
        \cup {[ok |-> FALSE, kind |-> k, n |-> n] : k \in ErrKinds}
NoOutcome == [ok |-> FALSE, kind |-> "none", n |-> 0]

\* `match strategy { RetryStrategy::None => operation().await, _ => loop }`
SingleShotNever(s) == FALSE
SingleShot(s) == s.kind = "None"

\* `Ok(result) => return Ok(result)`: the first arm of the match on the outcome.
StopsOnNothing(outcome) == FALSE
StopsOn(outcome) == outcome.ok

\* `Err(_e) if attempt < max_retries`
ShouldRetryInclusive(att, max) == att <= max
ShouldRetry(att, max) == att < max

\* `return Ok(result)` / `return Err(e)`: the value handed back to the caller.
ReturnedWrapped(outcome) ==
    IF outcome.ok THEN outcome ELSE [outcome EXCEPT !.kind = "RetriesExhausted"]
Returned(outcome) == outcome

\* `let delay = match strategy { ... }`, with wrapping arithmetic.
Delay(s, att) ==
    CASE s.kind = "None" -> FromSecs0
      [] s.kind = "Constant" -> s.d
      [] s.kind = "Linear" -> FromMillis(WrappingMul(AsMillis(s.d), U64(att + 1)))
      [] s.kind = "Exponential" ->
            FromMillis(WrappingMul(AsMillis(s.d), WrappingPow2(att)))

\* Whether computing that delay overflows a u64.
DelayOverflows(s, att) ==
    CASE s.kind = "Linear" -> MulOverflows(AsMillis(s.d), U64(att + 1))
      [] s.kind = "Exponential" ->
            PowOverflows(att) \/ MulOverflows(AsMillis(s.d), WrappingPow2(att))
      [] OTHER -> FALSE

\* One turn of the loop after the operation returned `outcome`: where control goes.
RetryStep(s, max, att, outcome, checks) ==
    IF SingleShot(s) \/ StopsOn(outcome)
    THEN [pc |-> IF outcome.ok THEN "Succeeded" ELSE "Exhausted",
          ret |-> Some(Returned(outcome)), delay |-> None]
    ELSE IF ShouldRetry(att, max)
    THEN IF checks /\ DelayOverflows(s, att)
         THEN [pc |-> "Panicked", ret |-> None, delay |-> None]
         ELSE [pc |-> "Delaying", ret |-> None, delay |-> Some(Delay(s, att))]
    ELSE [pc |-> "Exhausted", ret |-> Some(Returned(outcome)), delay |-> None]

RetryInit ==
    /\ pc = "Idle"
    /\ mode \in Modes
    /\ strategy \in RetryStrategy
    /\ max_retries \in MaxRetriesValues
    /\ overflow_checks \in BOOLEAN
    /\ attempt = 0
    /\ calls = 0
    /\ failures = 0
    /\ sleeps = 0
    /\ lastOutcome = NoOutcome
    /\ lastDelay = FromSecs0
    /\ result = None
    /\ inflight = None

\* The call is entered: `let mut attempt = 0`.
Enter(m) ==
    /\ pc = "Idle"
    /\ mode = m
    /\ pc' = "Attempting"
    /\ attempt' = 0
    /\ UNCHANGED <<mode, strategy, max_retries, overflow_checks, calls, failures,
                   sleeps, lastOutcome, lastDelay, result, inflight>>

\* The arm `match` selects on what the operation returned.
Arm(outcome) ==
    LET step == RetryStep(strategy, max_retries, attempt, outcome, overflow_checks)
    IN  /\ failures' = IF outcome.ok THEN failures ELSE failures + 1
        /\ lastOutcome' = outcome
        /\ pc' = step.pc
        /\ result' = step.ret
        /\ sleeps' = IF IsSome(step.delay) THEN sleeps + 1 ELSE sleeps
        /\ lastDelay' = IF IsSome(step.delay) THEN step.delay[1] ELSE lastDelay

\* `match operation() { ... }`: one invocation that returns without waiting
\* (every invocation of retry_blocking; with retry, an operation that is ready
\* at its first poll) and the arm it selects.
AttemptWith(m, outcome) ==
    /\ pc = "Attempting"
    /\ mode = m
    /\ inflight = None
    /\ calls' = calls + 1
    /\ Arm(outcome)
    /\ UNCHANGED <<mode, strategy, max_retries, overflow_checks, attempt, inflight>>

\* The operation is any closure: it may return any outcome.
Attempt(m) == \E outcome \in Outcomes(calls + 1) : AttemptWith(m, outcome)

\* `operation().await`, first half: the operation is invoked and is Pending;
\* the call waits at w.
InvokeAt(m, w) ==
    /\ pc = "Attempting"
    /\ mode = m
    /\ m = "async"
    /\ inflight = None
    /\ calls' = calls + 1
    /\ inflight' = Some(w)
    /\ UNCHANGED <<pc, mode, strategy, max_retries, overflow_checks, attempt, failures,
                   sleeps, lastOutcome, lastDelay, result>>
Invoke(m) == InvokeAt(m, [at |-> "operation"])

\* `operation().await`, second half: the operation returns and `match`
\* selects the arm.
ReturnWith(m, outcome) ==
    /\ pc = "Attempting"
    /\ mode = m
    /\ inflight # None
    /\ inflight' = None
    /\ Arm(outcome)
    /\ UNCHANGED <<mode, strategy, max_retries, overflow_checks, attempt, calls>>
Return(m) == \E outcome \in Outcomes(calls) : ReturnWith(m, outcome)

\* The sleep is over: `attempt += 1` and round the loop.
Wake(m) ==
    /\ pc = "Delaying"
    /\ mode = m
    /\ attempt' = attempt + 1
    /\ pc' = "Attempting"
    /\ UNCHANGED <<mode, strategy, max_retries, overflow_checks, calls, failures,
                   sleeps, lastOutcome, lastDelay, result, inflight>>

nonRetryVars ==
    <<builderVars, classifierVars, ebuilderVars, encoderVars, clientVars, restVars>>

RetryEnter == Enter("async") /\ UNCHANGED nonRetryVars
RetryAttempt == Attempt("async") /\ UNCHANGED nonRetryVars
RetryInvoke == Invoke("async") /\ UNCHANGED nonRetryVars
RetryReturn == Return("async") /\ UNCHANGED nonRetryVars
RetryWake == Wake("async") /\ UNCHANGED nonRetryVars
RetryBlockingEnter == Enter("blocking") /\ UNCHANGED nonRetryVars
RetryBlockingAttempt == Attempt("blocking") /\ UNCHANGED nonRetryVars
RetryBlockingWake == Wake("blocking") /\ UNCHANGED nonRetryVars

RetryNext ==
    \/ RetryEnter
    \/ RetryAttempt
    \/ RetryInvoke
    \/ RetryReturn
    \/ RetryWake
    \/ RetryBlockingEnter
    \/ RetryBlockingAttempt
    \/ RetryBlockingWake


(***************************************************************************)
(* GetTopHeadlinesRequestBuilder, src/src/model.rs.                         *)
(***************************************************************************)
\* Enum values are written as their Rust variants.
Countries == {"US", "CH"}
Categories == {"Business", "Technology"}
Languages == {"EN", "AR"}
SortBys == {"PublishedAt", "Popularity"}
SourceLists == {"bbc-news", "bbc-news,cnn"}
SearchTerms == {"", "bitcoin"}
PageSizes == {1, 20}
Pages == {1, 2}

Fields == {"country", "category", "sources", "search_term", "page_size", "page"}

\* #[derive(Default)]: every Option is None, the String is empty, every i32 is 0.
GetTopHeadlinesRequestBuilder_default ==
    [country |-> None, category |-> None, sources |-> None,
     search_term |-> "", page_size |-> 0, page |-> 0]

\* The fluent setters: each takes the builder and returns it with one field set.
country(b, c) == [b EXCEPT !.country = Some(c)]
category(b, c) == [b EXCEPT !.category = Some(c)]
sources(b, s) == [b EXCEPT !.sources = Some(s)]
search_term(b, q) == [b EXCEPT !.search_term = q]
page_size(b, n) == [b EXCEPT !.page_size = n]
page(b, n) == [b EXCEPT !.page = n]

Ok(v) == [ok |-> TRUE, value |-> v]
Err(e) == [ok |-> FALSE, value |-> e]

\* The condition under which build refuses the builder.
ConflictingFiltersCountryOnly(b) == IsSome(b.sources) /\ IsSome(b.country)
ConflictingFilters(b) ==
    IsSome(b.sources) /\ (IsSome(b.country) \/ IsSome(b.category))

\* GetTopHeadlinesRequestBuilder::build
build(b) ==
    IF ConflictingFilters(b)
    THEN Err("Cannot specify sources with country or category")
    ELSE Ok([country |-> b.country, category |-> b.category, sources |-> b.sources,
             search_term |-> b.search_term, page_size |-> b.page_size,
             page |-> b.page])

BuilderInit ==
    /\ builder = GetTopHeadlinesRequestBuilder_default
    /\ given = [f \in Fields |-> None]
    /\ built = None

SetCountry ==
    /\ built = None
    /\ \E c \in Countries :
        /\ builder' = country(builder, c)
        /\ given' = [given EXCEPT !["country"] = Some(c)]
    /\ UNCHANGED <<built, retryVars, classifierVars, ebuilderVars, encoderVars, clientVars,
                   restVars>>

SetCategory ==
    /\ built = None
    /\ \E c \in Categories :
        /\ builder' = category(builder, c)
        /\ given' = [given EXCEPT !["category"] = Some(c)]
    /\ UNCHANGED <<built, retryVars, classifierVars, ebuilderVars, encoderVars, clientVars,
                   restVars>>

SetSources ==
    /\ built = None
    /\ \E s \in SourceLists :
        /\ builder' = sources(builder, s)
        /\ given' = [given EXCEPT !["sources"] = Some(s)]
    /\ UNCHANGED <<built, retryVars, classifierVars, ebuilderVars, encoderVars, clientVars,
                   restVars>>

SetSearchTerm ==
    /\ built = None
    /\ \E q \in SearchTerms :
        /\ builder' = search_term(builder, q)
        /\ given' = [given EXCEPT !["search_term"] = Some(q)]
    /\ UNCHANGED <<built, retryVars, classifierVars, ebuilderVars, encoderVars, clientVars,
                   restVars>>

SetPageSize ==
    /\ built = None
    /\ \E n \in PageSizes :
        /\ builder' = page_size(builder, n)
        /\ given' = [given EXCEPT !["page_size"] = Some(n)]
    /\ UNCHANGED <<built, retryVars, classifierVars, ebuilderVars, encoderVars, clientVars,
                   restVars>>

SetPage ==
    /\ built = None
    /\ \E n \in Pages :
        /\ builder' = page(builder, n)
        /\ given' = [given EXCEPT !["page"] = Some(n)]
    /\ UNCHANGED <<built, retryVars, classifierVars, ebuilderVars, encoderVars, clientVars,
                   restVars>>

\* build consumes the builder and returns the Result.
Build ==
    /\ built = None
    /\ built' = Some(build(builder))
    /\ UNCHANGED <<builder, given, retryVars, classifierVars, ebuilderVars, encoderVars,
                   clientVars, restVars>>

BuilderNext ==
    \/ SetCountry
    \/ SetCategory
    \/ SetSources
    \/ SetSearchTerm
    \/ SetPageSize
    \/ SetPage
    \/ Build

(***************************************************************************)
(* GetEverythingRequestBuilder, src/src/model.rs.                           *)
(***************************************************************************)
\* chrono::DateTime<Utc>, to the second.
DateTimes ==
    {[y |-> 2023, mo |-> 1, d |-> 1, h |-> 0, mi |-> 0, s |-> 0],
     [y |-> 2023, mo |-> 1, d |-> 31, h |-> 23, mi |-> 59, s |-> 59]}
SearchIns == {<<"Title">>}
DomainLists == {"bbc.co.uk"}

EFields ==
    {"search_term", "search_in", "sources", "domains", "exclude_domains",
     "start_date", "end_date", "language", "sort_by", "page_size", "page"}

\* #[derive(Default)]: every Option is None, the String and the Vec are empty,
\* every i32 is 0.
GetEverythingRequestBuilder_default ==
    [search_term |-> "", search_in |-> <<>>, sources |-> None, domains |-> None,
     exclude_domains |-> None, start_date |-> None, end_date |-> None,
     language |-> None, sort_by |-> None, page_size |-> 0, page |-> 0]

\* #[strum(serialize = ...)] of ArticleSortBy: Display.
ArticleSortBy_to_string(v) ==
    CASE v = "PublishedAt" -> "publishedAt"
      [] v = "Relevancy" -> "relevancy"
      [] v = "Popularity" -> "popularity"

\* GetEverythingRequestBuilder::build: always succeeds.
build_everything(b) ==
    [search_term |-> b.search_term, search_in |-> b.search_in, sources |-> b.sources,
     domains |-> b.domains, exclude_domains |-> b.exclude_domains,
     start_date |-> b.start_date, end_date |-> b.end_date, language |-> b.language,
     sort_by |-> IF IsSome(b.sort_by) THEN Some(ArticleSortBy_to_string(b.sort_by[1]))
                 ELSE None,
     page_size |-> b.page_size, page |-> b.page]

EBuilderInit ==
    /\ ebuilder = GetEverythingRequestBuilder_default
    /\ egiven = [f \in EFields |-> None]
    /\ ebuilt = None

\* A setter that stores the value itself (search_term, search_in, page_size, page).
ESetPlain(field, v) ==
    /\ ebuilt = None
    /\ ebuilder' = [ebuilder EXCEPT ![field] = v]
    /\ egiven' = [egiven EXCEPT ![field] = Some(v)]
    /\ UNCHANGED <<ebuilt, retryVars, builderVars, classifierVars, encoderVars, clientVars,
                   restVars>>

\* A setter that stores Option::Some(value).
ESetSome(field, v) ==
    /\ ebuilt = None
    /\ ebuilder' = [ebuilder EXCEPT ![field] = Some(v)]
    /\ egiven' = [egiven EXCEPT ![field] = Some(v)]
    /\ UNCHANGED <<ebuilt, retryVars, builderVars, classifierVars, encoderVars, clientVars,
                   restVars>>

ESetSearchTerm == \E q \in SearchTerms : ESetPlain("search_term", q)
ESetSearchIn == \E v \in SearchIns : ESetPlain("search_in", v)
ESetSources == \E v \in SourceLists : ESetSome("sources", v)
ESetDomains == \E v \in DomainLists : ESetSome("domains", v)
ESetExcludeDomains == \E v \in DomainLists : ESetSome("exclude_domains", v)
ESetStartDate == \E v \in DateTimes : ESetSome("start_date", v)
ESetEndDate == \E v \in DateTimes : ESetSome("end_date", v)
ESetLanguage == \E v \in Languages : ESetSome("language", v)
ESetSortBy == \E v \in SortBys : ESetSome("sort_by", v)
ESetPageSize == \E n \in PageSizes : ESetPlain("page_size", n)
ESetPage == \E n \in Pages : ESetPlain("page", n)

EBuild ==
    /\ ebuilt = None
    /\ ebuilt' = Some(build_everything(ebuilder))
    /\ UNCHANGED <<ebuilder, egiven, retryVars, builderVars, classifierVars, encoderVars,
                   clientVars, restVars>>

EBuilderNext ==
    \/ ESetSearchTerm
    \/ ESetSearchIn
    \/ ESetSources
    \/ ESetDomains
    \/ ESetExcludeDomains
    \/ ESetStartDate
    \/ ESetEndDate
    \/ ESetLanguage
    \/ ESetSortBy
    \/ ESetPageSize
    \/ ESetPage
    \/ EBuild

(***************************************************************************)
(* The error classifier: parse_error_response_internal, src/src/client.rs.  *)
(***************************************************************************)
\* The nine wire strings the classifier knows, and codes it does not know.
KnownWireCodes ==
    {"apiKeyDisabled", "apiKeyExhausted", "apiKeyInvalid", "apiKeyMissing",
     "parameterInvalid", "parametersMissing", "rateLimited", "sourcesTooMany",
     "sourceDoesNotExist"}
OtherWireCodes == {"unexpectedError", "unknown", "maintenance"}

StatusCodes == {400, 401, 429, 500}

\* A response body.  json: the text is a JSON object whose status, code and
\* message are strings, null or missing (None when null or missing); otherwise
\* the text is anything else.  tooMany, rateLimit: the text contains the phrase
\* "too many requests", "rate limit".
Bodies ==
    {[json |-> TRUE, status |-> st, code |-> c, message |-> m,
      tooMany |-> t, rateLimit |-> r] :
        st \in {None, Some("error")},
        c \in {None} \cup {Some(w) : w \in KnownWireCodes \cup OtherWireCodes},
        m \in {None, Some("m")},
        t \in BOOLEAN, r \in BOOLEAN}
    \cup
    {[json |-> FALSE, status |-> None, code |-> None, message |-> None,
      tooMany |-> t, rateLimit |-> r] : t \in BOOLEAN, r \in BOOLEAN}

\* serde_json::from_str::<NewsApiErrorResponse>: status is a required String,
\* code and message are Option<String>.
from_str_NewsApiErrorResponse(body) ==
    IF body.json /\ IsSome(body.status)
    THEN Ok([status |-> body.status[1], code |-> body.code, message |-> body.message])
    ELSE Err("parse error")

\* The fallback on the numeric status code.
StatusFallbackNever429(status_code) == "UnexpectedError"
StatusFallbackUnknown(status_code) == "Unknown"
StatusFallback(status_code) ==
    IF status_code = 429 THEN "RateLimited" ELSE "UnexpectedError"

\* `match error_response.code.as_deref() { ... }`
error_code_status_first(code, status_code) ==
    IF status_code = 429 THEN "RateLimited"
    ELSE IF code = Some("apiKeyInvalid") THEN "ApiKeyInvalid"
    ELSE "UnexpectedError"
error_code(code, status_code) ==
    CASE code = Some("apiKeyDisabled") -> "ApiKeyDisabled"
      [] code = Some("apiKeyExhausted") -> "ApiKeyExhausted"
      [] code = Some("apiKeyInvalid") -> "ApiKeyInvalid"
      [] code = Some("apiKeyMissing") -> "ApiKeyMissing"
      [] code = Some("parameterInvalid") -> "ParameterInvalid"
      [] code = Some("parametersMissing") -> "ParametersMissing"
      [] code = Some("rateLimited") -> "RateLimited"
      [] code = Some("sourcesTooMany") -> "SourcesTooMany"
      [] code = Some("sourceDoesNotExist") -> "SourceDoesNotExist"
      [] OTHER -> StatusFallback(status_code)

InvalidResponse(status, code, message) ==
    [variant |-> "InvalidResponse", status |-> status, code |-> code,
     message |-> message]

parse_error_response_internal(response_text, status_code) ==
    LET parsed == from_str_NewsApiErrorResponse(response_text)
    IN  IF parsed.ok
        THEN InvalidResponse(
                parsed.value.status,
                error_code(parsed.value.code, status_code),
                IF IsSome(parsed.value.message) THEN parsed.value.message[1]
                ELSE "Unknown error")
        ELSE InvalidResponse(
                "error",
                StatusFallback(status_code),
                IF response_text.tooMany \/ response_text.rateLimit
                THEN "You have made too many requests. Rate limit exceeded."
                ELSE "Failed to parse error response")

ClassifierInit ==
    /\ response \in [status_code : StatusCodes, body : Bodies]
    /\ classified = None

Classify ==
    /\ classified = None
    /\ classified' = Some(parse_error_response_internal(response.body, response.status_code))
    /\ UNCHANGED <<response, retryVars, builderVars, ebuilderVars, encoderVars, clientVars,
                   restVars>>

ClassifierNext == Classify

(***************************************************************************)
(* The query encoders: get_*_query_params and                               *)
(* get_endpoint_with_query_params_for_*, src/src/client.rs.                 *)
(***************************************************************************)
MaxEncodes == 2

OptionOf(S) == {None} \cup {Some(x) : x \in S}

\* Display of the enums, #[strum(serialize_all = "lowercase")].
Country_to_string(v) ==
    CASE v = "US" -> "us"
      [] v = "CH" -> "ch"
NewsCategory_to_string(v) ==
    CASE v = "Business" -> "business"
      [] v = "Technology" -> "technology"
Language_to_string(v) ==
    CASE v = "EN" -> "en"
      [] v = "AR" -> "ar"
\* str::to_lowercase, on the strings a language can be displayed as.
to_lowercase(str) ==
    CASE str \in {"en", "EN", "En"} -> "en"
      [] str \in {"ar", "AR", "Ar"} -> "ar"

\* i32::to_string
i32_to_string(n) == ToString(n)

\* DateTime<Utc>::to_rfc3339 of a whole-second instant.
Pad2(n) == IF n < 10 THEN "0" \o ToString(n) ELSE ToString(n)
Pad4(n) ==
    IF n < 10 THEN "000" \o ToString(n)
    ELSE IF n < 100 THEN "00" \o ToString(n)
    ELSE IF n < 1000 THEN "0" \o ToString(n)
    ELSE ToString(n)
to_rfc3339(dt) ==
    Pad4(dt.y) \o "-" \o Pad2(dt.mo) \o "-" \o Pad2(dt.d) \o "T" \o Pad2(dt.h) \o ":"
        \o Pad2(dt.mi) \o ":" \o Pad2(dt.s) \o "+00:00"

\* The i32 values a request's page_size and page are drawn from.
RequestPageSizes == {0, 1, 20, 101}
RequestPages == {0, 1, 2}

\* The values of GetTopHeadlinesRequest.
GetTopHeadlinesRequest ==
    [country : OptionOf(Countries), category : OptionOf(Categories),
     sources : OptionOf({"bbc-news"}), search_term : SearchTerms,
     page_size : RequestPageSizes, page : RequestPages]

\* The values of GetEverythingRequest: what build makes of a builder.
EverythingBuilders ==
    [search_term : SearchTerms, search_in : {<<>>} \cup SearchIns,
     sources : OptionOf({"bbc-news"}), domains : OptionOf(DomainLists),
     exclude_domains : {None},
     start_date : OptionOf(DateTimes),
     end_date : OptionOf({[y |-> 2023, mo |-> 1, d |-> 31, h |-> 23, mi |-> 59, s |-> 59]}),
     language : OptionOf(Languages), sort_by : OptionOf({"PublishedAt"}),
     page_size : RequestPageSizes, page : RequestPages]
GetEverythingRequest == {build_everything(b) : b \in EverythingBuilders}

\* The values of GetSourcesRequest: three optional filters.
GetSourcesRequest ==
    [category : OptionOf(Categories), language : OptionOf(Languages),
     country : OptionOf(Countries)]

Pair(key, value) == <<key, value>>
\* `if let Some(x) = field { query_params.push((key, value)) }`
PushIf(cond, key, value) == IF cond THEN <<Pair(key, value)>> ELSE <<>>

\* The mutant of get_top_headlines_query_params emits pageSize from 1 on.
get_top_headlines_query_params_page_size_from_one(req) ==
    PushIf(IsSome(req.country), "country", Country_to_string(req.country[1]))
    \o PushIf(IsSome(req.category), "category",
              NewsCategory_to_string(req.category[1]))
    \o PushIf(IsSome(req.sources), "sources", req.sources[1])
    \o PushIf(req.search_term # "", "q", req.search_term)
    \o PushIf(req.page_size > 0, "pageSize", i32_to_string(req.page_size))
    \o PushIf(req.page > 1, "page", i32_to_string(req.page))
get_top_headlines_query_params(req) ==
    PushIf(IsSome(req.country), "country", Country_to_string(req.country[1]))
    \o PushIf(IsSome(req.category), "category",
              NewsCategory_to_string(req.category[1]))
    \o PushIf(IsSome(req.sources), "sources", req.sources[1])
    \o PushIf(req.search_term # "", "q", req.search_term)
    \o PushIf(req.page_size > 1, "pageSize", i32_to_string(req.page_size))
    \o PushIf(req.page > 1, "page", i32_to_string(req.page))

\* The mutant of get_everything_query_params leaves an empty q out.
get_everything_query_params_nonempty_q(req) ==
    PushIf(req.search_term # "", "q", req.search_term)
    \o PushIf(IsSome(req.language), "language",
              to_lowercase(Language_to_string(req.language[1])))
    \o PushIf(IsSome(req.start_date), "from", to_rfc3339(req.start_date[1]))
    \o PushIf(IsSome(req.end_date), "to", to_rfc3339(req.end_date[1]))
    \o PushIf(req.page_size > 0, "pageSize", i32_to_string(req.page_size))
    \o PushIf(req.page > 1, "page", i32_to_string(req.page))
get_everything_query_params(req) ==
    <<Pair("q", req.search_term)>>
    \o PushIf(IsSome(req.language), "language",
              to_lowercase(Language_to_string(req.language[1])))
    \o PushIf(IsSome(req.start_date), "from", to_rfc3339(req.start_date[1]))
    \o PushIf(IsSome(req.end_date), "to", to_rfc3339(req.end_date[1]))
    \o PushIf(req.page_size > 0, "pageSize", i32_to_string(req.page_size))
    \o PushIf(req.page > 1, "page", i32_to_string(req.page))

\* The mutant of get_sources_query_params puts language first.
get_sources_query_params_language_first(req) ==
    PushIf(IsSome(req.language), "language",
           to_lowercase(Language_to_string(req.language[1])))
    \o PushIf(IsSome(req.category), "category",
              NewsCategory_to_string(req.category[1]))
    \o PushIf(IsSome(req.country), "country", Country_to_string(req.country[1]))
get_sources_query_params(req) ==
    PushIf(IsSome(req.category), "category",
           NewsCategory_to_string(req.category[1]))
    \o PushIf(IsSome(req.language), "language",
              to_lowercase(Language_to_string(req.language[1])))
    \o PushIf(IsSome(req.country), "country", Country_to_string(req.country[1]))

\* A url::Url: its path and its query, the query held as the list of pairs it
\* parses to (None when the url has no `?`).
TOP_HEADLINES_ENDPOINT == "/v2/top-headlines"
EVERYTHING_ENDPOINT == "/v2/everything"
SOURCES_ENDPOINT == "/v2/sources"
NEWS_API_URI == [path |-> "/", query |-> None]
BaseUrls == {NEWS_API_URI, [path |-> "/proxy", query |-> Some(<<Pair("tenant", "a")>>)]}

set_path(u, path) == [u EXCEPT !.path = path]
\* The mutant of query_pairs_clear keeps the pairs the url already has.
query_pairs_kept(u) == u
\* url.query_pairs_mut().clear(): the query becomes present and empty.
query_pairs_clear(u) == [u EXCEPT !.query = Some(<<>>)]
append_pair(u, key, value) ==
    [u EXCEPT !.query = Some((IF IsSome(@) THEN @[1] ELSE <<>>) \o <<Pair(key, value)>>)]
RECURSIVE append_pairs(_, _)
append_pairs(u, pairs) ==
    IF pairs = <<>> THEN u
    ELSE append_pairs(append_pair(u, pairs[1][1], pairs[1][2]), Tail(pairs))

get_endpoint_with_query_params_for_top_headlines(u, req) ==
    append_pairs(query_pairs_clear(set_path(u, TOP_HEADLINES_ENDPOINT)),
                 get_top_headlines_query_params(req))
get_endpoint_with_query_params_for_everything(u, req) ==
    append_pairs(query_pairs_clear(set_path(u, EVERYTHING_ENDPOINT)),
                 get_everything_query_params(req))
get_endpoint_with_query_params_for_sources(u, req) ==
    append_pairs(query_pairs_clear(set_path(u, SOURCES_ENDPOINT)),
                 get_sources_query_params(req))

Endpoints == {"top_headlines", "everything", "sources"}
Requests(e) ==
    CASE e = "top_headlines" -> GetTopHeadlinesRequest
      [] e = "everything" -> GetEverythingRequest
      [] e = "sources" -> GetSourcesRequest

EncoderInit ==
    /\ encEndpoint \in Endpoints
    /\ encRequest \in Requests(encEndpoint)
    /\ url \in BaseUrls
    /\ encodes = 0
    /\ firstUrl = None

\* One call of an encoder on the url it is handed; firstUrl keeps what the
\* first call left, and the request it was made for.
Encoded(e, u) ==
    /\ encEndpoint = e
    /\ encodes < MaxEncodes
    /\ url' = u
    /\ encodes' = encodes + 1
    /\ firstUrl' = IF encodes = 0 THEN Some([url |-> u, request |-> encRequest])
                   ELSE firstUrl
    /\ UNCHANGED <<encEndpoint, encRequest, retryVars, builderVars, classifierVars,
                   ebuilderVars, clientVars, restVars>>

EncodeTopHeadlines ==
    Encoded("top_headlines", get_endpoint_with_query_params_for_top_headlines(url, encRequest))
EncodeEverything ==
    Encoded("everything", get_endpoint_with_query_params_for_everything(url, encRequest))
EncodeSources ==
    Encoded("sources", get_endpoint_with_query_params_for_sources(url, encRequest))

EncoderNext ==
    \/ EncodeTopHeadlines
    \/ EncodeEverything
    \/ EncodeSources

(***************************************************************************)
(* The endpoint operations: get_top_headlines, get_everything and           *)
(* get_sources, src/src/client.rs, each one run inside the retry policy.    *)
(***************************************************************************)
ClientMaxRetries == 2

\* The api keys: one that makes a header value, and one holding a line break.
ApiKeys == {"test-key", "bad\nkey"}
NEWS_API_CLIENT_USER_AGENT == "newsapi-rs/0.1.0"

\* HeaderValue::from_str: visible ASCII only.
HeaderValue_from_str(str) ==
    IF str \in {"Bearer bad\nkey"} THEN Err("InvalidHeaderValue") ELSE Ok(str)

\* An error value of ApiClientError and the outcome of one run of the closure.
ApiClientError(variant, payload) == [variant |-> variant, payload |-> payload]
Failure(e) == [ok |-> FALSE, kind |-> e.variant, value |-> e]
Success(v) == [ok |-> TRUE, kind |-> "response", value |-> v]

\* The mutant of get_request_headers leaves the User-Agent header out.
get_request_headers_authorization_only(self) ==
    LET authorization == HeaderValue_from_str("Bearer " \o self.api_key)
    IN  IF authorization.ok
        THEN Ok([AUTHORIZATION |-> authorization.value])
        ELSE Err(ApiClientError("InvalidHeaderValue", authorization.value))
get_request_headers(self) ==
    LET authorization == HeaderValue_from_str("Bearer " \o self.api_key)
    IN  IF authorization.ok
        THEN Ok([AUTHORIZATION |-> authorization.value,
                 USER_AGENT |-> NEWS_API_CLIENT_USER_AGENT])
        ELSE Err(ApiClientError("InvalidHeaderValue", authorization.value))

top_headlines_validate_request(req) ==
    IF IsSome(req.sources) /\ (IsSome(req.country) \/ IsSome(req.category))
    THEN Err(ApiClientError("InvalidRequest",
                            "Cannot specify sources with country or category"))
    ELSE Ok("unit")

\* A JSON article: title is a required String.
JsonArticle(title) == [title |-> title]
\* The response bodies the transport hands back.  On top of the fields the error
\* classifier reads, totalResults, articles and sources are the members of the
\* JSON object by these names (None when missing).
ClientBody(json, status, code, message, totalResults, articles, srcs) ==
    [json |-> json, status |-> status, code |-> code, message |-> message,
     tooMany |-> FALSE, rateLimit |-> FALSE,
     totalResults |-> totalResults, articles |-> articles, sources |-> srcs]
TwoArticles ==
    ClientBody(TRUE, Some("ok"), None, None, Some(2),
               Some(<<JsonArticle(Some("First")), JsonArticle(Some("Second"))>>), None)
ClientBodies ==
    {TwoArticles,
     ClientBody(TRUE, Some("ok"), None, None, None,
                Some(<<JsonArticle(Some("First"))>>), None),
     ClientBody(TRUE, Some("ok"), None, None, Some(1), Some(<<JsonArticle(None)>>), None),
     ClientBody(TRUE, Some("ok"), None, None, None, None, Some(<<"bbc-news", "cnn">>)),
     ClientBody(TRUE, Some("error"), Some("apiKeyInvalid"),
                Some("Your API key is invalid"), None, None, None),
     ClientBody(FALSE, None, None, None, None, None, None)}

\* serde_json::from_str::<Vec<Article>>
RECURSIVE from_json_articles(_)
from_json_articles(articles) ==
    IF articles = <<>> THEN Ok(<<>>)
    ELSE IF ~IsSome(articles[1].title) THEN Err("missing field title")
    ELSE LET rest == from_json_articles(Tail(articles))
         IN  IF rest.ok THEN Ok(<<[title |-> articles[1].title[1]]>> \o rest.value)
             ELSE rest

\* serde_json::from_str::<GetEverythingResponse> and ::<TopHeadlinesResponse>:
\* status, totalResults and articles are required.
from_str_ArticlesResponse(body) ==
    IF ~body.json THEN Err("expected value at line 1 column 1")
    ELSE IF ~IsSome(body.status) THEN Err("missing field status")
    ELSE IF ~IsSome(body.totalResults) THEN Err("missing field totalResults")
    ELSE IF ~IsSome(body.articles) THEN Err("missing field articles")
    ELSE LET articles == from_json_articles(body.articles[1])
         IN  IF articles.ok
             THEN Ok([status |-> body.status[1], total_results |-> body.totalResults[1],
                      articles |-> articles.value])
             ELSE articles
from_str_GetEverythingResponse(body) == from_str_ArticlesResponse(body)
from_str_TopHeadlinesResponse(body) == from_str_ArticlesResponse(body)
\* serde_json::from_str::<GetSourcesResponse>: status and sources are required.
from_str_GetSourcesResponse(body) ==
    IF ~body.json THEN Err("expected value at line 1 column 1")
    ELSE IF ~IsSome(body.status) THEN Err("missing field status")
    ELSE IF ~IsSome(body.sources) THEN Err("missing field sources")
    ELSE Ok([status |-> body.status[1], sources |-> body.sources[1]])

\* What the transport answers to one send: the send fails, or a status comes
\* back and reading the body fails, or a status and a body come back.
AnswerStatusCodes == {200, 201} \cup StatusCodes
TransportAnswers ==
    {[kind |-> "SendError", status |-> 0, body |-> TwoArticles]}
    \cup {[kind |-> "TextError", status |-> st, body |-> TwoArticles] :
            st \in {200, 401}}
    \cup {[kind |-> "Response", status |-> st, body |-> b] :
            st \in AnswerStatusCodes, b \in ClientBodies}

\* The mutant of is_success takes every status below 500 for a success.
is_success_below_500(status) == status < 500
\* StatusCode::is_success
is_success(status) == 200 <= status /\ status < 300

\* format!("{e}") and format!("Failed to parse response: {e}")
ParserMessage(e) == e
FailedToParse(e) == "Failed to parse response: " \o e

\* serde_json::from_str of the response model of the endpoint e, and the
\* message each operation makes of the parser's error.
Decode(e, body) ==
    CASE e = "top_headlines" -> from_str_TopHeadlinesResponse(body)
      [] e = "everything" -> from_str_GetEverythingResponse(body)
      [] e = "sources" -> from_str_GetSourcesResponse(body)
DecodeError(e, err) ==
    IF e = "top_headlines" THEN FailedToParse(err) ELSE ParserMessage(err)

\* `send()?` and what follows it in the closure of the endpoint e.
Respond(e, answer) ==
    IF answer.kind = "SendError" THEN Failure(ApiClientError("Http", "send"))
    ELSE IF answer.kind = "TextError" THEN Failure(ApiClientError("Http", "text"))
    ELSE IF is_success(answer.status)
    THEN LET decoded == Decode(e, answer.body)
         IN  IF decoded.ok THEN Success(decoded.value)
             ELSE Failure(ApiClientError("InvalidRequest",
                                         DecodeError(e, decoded.value)))
    ELSE Failure(parse_error_response_internal(answer.body, answer.status))

\* What one run of a closure did: whether it validated, what it handed to the
\* transport (None when it returned before `send`), and what it returned.
Ran(validated, sent, outcome) ==
    [validations |-> IF validated THEN 1 ELSE 0, sent |-> sent, outcome |-> outcome]
Sent(u, headers) == Some([url |-> u, headers |-> headers])

\* The closure of get_top_headlines, run against the transport's answer.
get_top_headlines(self, req, answer) ==
    LET valid == top_headlines_validate_request(req)
        u == get_endpoint_with_query_params_for_top_headlines(self.base_url, req)
        headers == get_request_headers(self)
    IN  IF ~valid.ok THEN Ran(TRUE, None, Failure(valid.value))
        ELSE IF ~headers.ok THEN Ran(TRUE, None, Failure(headers.value))
        ELSE Ran(TRUE, Sent(u, headers.value),
                 Respond("top_headlines", answer))

\* The closure of get_everything.
get_everything(self, req, answer) ==
    LET u == get_endpoint_with_query_params_for_everything(self.base_url, req)
        headers == get_request_headers(self)
    IN  IF ~headers.ok THEN Ran(FALSE, None, Failure(headers.value))
        ELSE Ran(FALSE, Sent(u, headers.value),
                 Respond("everything", answer))

\* The closure of get_sources.
get_sources(self, req, answer) ==
    LET u == get_endpoint_with_query_params_for_sources(self.base_url, req)
        headers == get_request_headers(self)
    IN  IF ~headers.ok THEN Ran(FALSE, None, Failure(headers.value))
        ELSE Ran(FALSE, Sent(u, headers.value),
                 Respond("sources", answer))

\* The requests the operations are called with.
HeadlinesRequest(c, cat, srcs, n, pg) ==
    [country |-> c, category |-> cat, sources |-> srcs,
     search_term |-> "", page_size |-> n, page |-> pg]
ClientRequests(e) ==
    CASE e = "top_headlines" ->
            {HeadlinesRequest(Some("US"), None, None, 20, 1),
             HeadlinesRequest(None, None, Some("bbc-news"), 1, 1),
             HeadlinesRequest(Some("US"), None, Some("bbc-news"), 20, 1),
             HeadlinesRequest(None, Some("Business"), Some("bbc-news"), 20, 1),
             HeadlinesRequest(Some("US"), None, None, 101, 1),
             HeadlinesRequest(Some("US"), None, None, 0, 0)}
      [] e = "everything" ->
            {build_everything(b) :
                b \in {[GetEverythingRequestBuilder_default EXCEPT
                            !.search_term = "bitcoin", !.page_size = n, !.page = pg] :
                        n \in {0, 20, 101}, pg \in {0, 1}}}
      [] e = "sources" ->
            {[category |-> None, language |-> None, country |-> None],
             [category |-> Some("Business"), language |-> Some("EN"), country |-> None]}

ClientStrategies ==
    {[kind |-> "None", d |-> FromSecs0]}
        \cup {[kind |-> k, d |-> FromMillis(U64(1))] :
                k \in {"Constant", "Linear", "Exponential"}}

\* The retry policy as a client holds it.
ClientRetryInit ==
    /\ pc = "Idle"
    /\ mode \in Modes
    /\ strategy \in ClientStrategies
    /\ max_retries \in 0 .. ClientMaxRetries
    /\ overflow_checks \in BOOLEAN
    /\ attempt = 0
    /\ calls = 0
    /\ failures = 0
    /\ sleeps = 0
    /\ lastOutcome = NoOutcome
    /\ lastDelay = FromSecs0
    /\ result = None
    /\ inflight = None

ClientInit ==
    /\ client \in [api_key : ApiKeys, base_url : {NEWS_API_URI}]
    /\ endpoint \in Endpoints
    /\ request \in ClientRequests(endpoint)
    /\ validations = 0
    /\ sends = 0
    /\ lastSent = None
    /\ lastAnswer = None

otherVars == <<builderVars, classifierVars, ebuilderVars, encoderVars, restVars>>

\* The operation is called: retry is entered with the client's policy.
ClientEnter ==
    /\ Enter(mode)
    /\ UNCHANGED <<clientVars, otherVars>>

\* The closure of the endpoint e, run against the transport's answer.
Closure(e, self, req, answer) ==
    CASE e = "top_headlines" -> get_top_headlines(self, req, answer)
      [] e = "everything" -> get_everything(self, req, answer)
      [] e = "sources" -> get_sources(self, req, answer)

\* The outcome of the n-th run of the closure, as retry receives it.
OutcomeOf(ran, n) ==
    [ok |-> ran.outcome.ok, kind |-> ran.outcome.kind, n |-> n,
     value |-> ran.outcome.value]

\* One invocation of the closure by retry, up to its return or to the first
\* point where it waits.  The closure validates, encodes and builds the headers.
\* When it returns before `send`, and in the blocking client, where it waits for
\* nothing, the invocation and the arm retry takes on its outcome are one step.
\* In the async client the closure that reaches `.send().await` hands the
\* request to the transport and is Pending there.
ClientAttempt(e, ran, answer) ==
    /\ endpoint = e
    /\ validations' = validations + ran.validations
    /\ sends' = IF IsSome(ran.sent) THEN sends + 1 ELSE sends
    /\ lastSent' = IF IsSome(ran.sent) THEN ran.sent ELSE lastSent
    /\ IF mode = "async" /\ IsSome(ran.sent)
       THEN /\ InvokeAt("async", [at |-> "send"])
            /\ lastAnswer' = lastAnswer
       ELSE /\ AttemptWith(mode, OutcomeOf(ran, calls + 1))
            /\ lastAnswer' = IF IsSome(ran.sent) THEN Some(answer) ELSE lastAnswer
    /\ UNCHANGED <<client, endpoint, request, otherVars>>

GetTopHeadlines ==
    \E answer \in TransportAnswers :
        ClientAttempt("top_headlines", get_top_headlines(client, request, answer), answer)
GetEverything ==
    \E answer \in TransportAnswers :
        ClientAttempt("everything", get_everything(client, request, answer), answer)
GetSources ==
    \E answer \in TransportAnswers :
        ClientAttempt("sources", get_sources(client, request, answer), answer)

\* `.send().await?` is answered.  A failed send is the closure's outcome; a
\* response has its status read and the closure waits at
\* `response.text().await`.
ClientSendAnswered ==
    /\ inflight = Some([at |-> "send"])
    /\ \E answer \in TransportAnswers :
        IF answer.kind = "SendError"
        THEN /\ ReturnWith("async",
                           OutcomeOf(Closure(endpoint, client, request, answer), calls))
             /\ lastAnswer' = Some(answer)
        ELSE /\ pc = "Attempting"
             /\ inflight' = Some([at |-> "text", status |-> answer.status])
             /\ UNCHANGED <<pc, mode, strategy, max_retries, overflow_checks, attempt,
                            calls, failures, sleeps, lastOutcome, lastDelay, result,
                            lastAnswer>>
    /\ UNCHANGED <<client, endpoint, request, validations, sends, lastSent,
                   otherVars>>

\* `response.text().await?` is over: reading the body failed or gave the
\* body; the closure decodes or classifies and returns, and retry takes the
\* arm on its outcome.
ClientTextRead ==
    /\ inflight # None
    /\ inflight[1].at = "text"
    /\ \E answer \in TransportAnswers :
        /\ answer.kind # "SendError"
        /\ answer.status = inflight[1].status
        /\ ReturnWith("async",
                      OutcomeOf(Closure(endpoint, client, request, answer), calls))
        /\ lastAnswer' = Some(answer)
    /\ UNCHANGED <<client, endpoint, request, validations, sends, lastSent,
                   otherVars>>

\* The sleep between two invocations is over.
ClientWake ==
    /\ Wake(mode)
    /\ UNCHANGED <<clientVars, otherVars>>

ClientNext ==
    \/ ClientEnter
    \/ GetTopHeadlines
    \/ GetEverything
    \/ GetSources
    \/ ClientSendAnswered
    \/ ClientTextRead
    \/ ClientWake

(***************************************************************************)
(* NewsApiClientBuilder and BlockingNewsApiClientBuilder, src/src/client.rs. *)
(***************************************************************************)
NEWS_API_KEY_ENV == "NEWS_API_KEY"

\* What the environment holds under NEWS_API_KEY: nothing, a string, or bytes
\* that are not valid Unicode.
Environments ==
    {[present |-> FALSE, unicode |-> TRUE, value |-> ""],
     [present |-> TRUE, unicode |-> TRUE, value |-> "env-api-key"],
     [present |-> TRUE, unicode |-> FALSE, value |-> ""]}

\* std::env::var: Err when the variable is not present or is not valid Unicode.
env_var(e) ==
    IF ~e.present THEN Err("NotPresent")
    ELSE IF ~e.unicode THEN Err("NotUnicode")
    ELSE Ok(e.value)

\* Url::parse, on the strings handed to base_url.
UrlStrings == {"https://newsapi.org/", "http://localhost:8080/proxy?tenant=a", "newsapi"}
Url_parse(str) ==
    CASE str = "https://newsapi.org/" -> Ok([path |-> "/", query |-> None])
      [] str = "http://localhost:8080/proxy?tenant=a" ->
            Ok([path |-> "/proxy", query |-> Some(<<Pair("tenant", "a")>>)])
      [] OTHER -> Err("RelativeUrlWithoutBase")

BuilderTypes == {"NewsApiClientBuilder", "BlockingNewsApiClientBuilder"}
ExplicitKeys == {"explicit-key", ""}

\* impl Default: no key, the base url of NEWS_API_URI, no retry.
NewsApiClientBuilder_default(type) ==
    [type |-> type, api_key |-> None, base_url |-> Some(Url_parse("https://newsapi.org/").value),
     retry_strategy |-> [kind |-> "None", d |-> FromSecs0], max_retries |-> 0]

\* The mutant of NewsApiClientBuilder_build lets the environment win over the
\* key the builder holds.
NewsApiClientBuilder_build_env_first(b, e) ==
    LET key == IF env_var(e).ok THEN env_var(e)
               ELSE IF IsSome(b.api_key) THEN Ok(b.api_key[1])
               ELSE Err("API key must be provided either explicitly or via "
                        \o NEWS_API_KEY_ENV \o " environment variable")
    IN  IF key.ok
        THEN Ok([api_key |-> key.value,
                 base_url |-> IF IsSome(b.base_url) THEN b.base_url[1] ELSE NEWS_API_URI,
                 retry_strategy |-> b.retry_strategy, max_retries |-> b.max_retries])
        ELSE key
\* build: the builder's key, else the environment's, else an error.
NewsApiClientBuilder_build(b, e) ==
    LET key == IF IsSome(b.api_key) THEN Ok(b.api_key[1])
               ELSE IF env_var(e).ok THEN env_var(e)
               ELSE Err("API key must be provided either explicitly or via "
                        \o NEWS_API_KEY_ENV \o " environment variable")
    IN  IF key.ok
        THEN Ok([api_key |-> key.value,
                 base_url |-> IF IsSome(b.base_url) THEN b.base_url[1] ELSE NEWS_API_URI,
                 retry_strategy |-> b.retry_strategy, max_retries |-> b.max_retries])
        ELSE key

\* How a construction ends: build returned r, a setter returned an error, or
\* from_env panicked.
Built(r) == [by |-> "build", ok |-> r.ok, value |-> r.value]
Rejected(e) == [by |-> "base_url", ok |-> FALSE, value |-> e]
Panicked(msg) == [by |-> "panic", ok |-> FALSE, value |-> msg]

CBuilderInit ==
    /\ env \in Environments
    /\ cbuilder = None
    /\ explicitKey = None
    /\ made = None

cbuilderFrame ==
    <<env, retryVars, builderVars, classifierVars, ebuilderVars, encoderVars, clientVars,
      tasksVars, twin, cancelled>>

\* NewsApiClientBuilder::new / NewsApiClient::builder, and the blocking ones.
CNew ==
    /\ cbuilder = None /\ made = None
    /\ \E type \in BuilderTypes : cbuilder' = Some(NewsApiClientBuilder_default(type))
    /\ UNCHANGED <<explicitKey, made, cbuilderFrame>>

\* from_env: new().api_key(the variable), or a panic.
CFromEnv ==
    /\ cbuilder = None /\ made = None
    /\ \E type \in BuilderTypes :
        IF env_var(env).ok
        THEN /\ cbuilder' = Some([NewsApiClientBuilder_default(type) EXCEPT
                                    !.api_key = Some(env_var(env).value)])
             /\ made' = made
        ELSE /\ cbuilder' = cbuilder
             /\ made' = Some(Panicked(NEWS_API_KEY_ENV \o " is not set"))
    /\ UNCHANGED <<explicitKey, cbuilderFrame>>

CApiKey ==
    /\ cbuilder # None /\ made = None
    /\ \E k \in ExplicitKeys :
        /\ cbuilder' = Some([cbuilder[1] EXCEPT !.api_key = Some(k)])
        /\ explicitKey' = Some(k)
    /\ UNCHANGED <<made, cbuilderFrame>>

\* base_url: `Url::parse(url.as_ref())?`
CBaseUrl ==
    /\ cbuilder # None /\ made = None
    /\ \E str \in UrlStrings :
        IF Url_parse(str).ok
        THEN /\ cbuilder' = Some([cbuilder[1] EXCEPT !.base_url = Some(Url_parse(str).value)])
             /\ made' = made
        ELSE /\ cbuilder' = cbuilder
             /\ made' = Some(Rejected(Url_parse(str).value))
    /\ UNCHANGED <<explicitKey, cbuilderFrame>>

CRetry ==
    /\ cbuilder # None /\ made = None
    /\ \E s \in ClientStrategies, n \in 0 .. ClientMaxRetries :
        cbuilder' = Some([cbuilder[1] EXCEPT !.retry_strategy = s, !.max_retries = n])
    /\ UNCHANGED <<explicitKey, made, cbuilderFrame>>

CBuild ==
    /\ cbuilder # None /\ made = None
    /\ made' = Some(Built(NewsApiClientBuilder_build(cbuilder[1], env)))
    /\ UNCHANGED <<cbuilder, explicitKey, cbuilderFrame>>

CBuilderNext ==
    \/ CNew
    \/ CFromEnv
    \/ CApiKey
    \/ CBaseUrl
    \/ CRetry
    \/ CBuild

(***************************************************************************)
(* Two calls on one async client: each is a future holding a shared          *)
(* reference to the client and its own locals of retry, src/src/retry.rs.    *)
(***************************************************************************)
CallIds == {1, 2}
TaskOutcomes == {[ok |-> TRUE, kind |-> "response"], [ok |-> FALSE, kind |-> "Http"],
                 [ok |-> FALSE, kind |-> "InvalidResponse"]}

\* `let mut attempt = 0`: the call whose frame holds the counter call c uses.
\* The mutant keeps one counter for all calls.
AttemptOwnerShared(c) == 1
AttemptOwner(c) == c

TasksInit ==
    /\ shared \in [api_key : {"test-key"}, base_url : {NEWS_API_URI},
                   retry_strategy : ClientStrategies, max_retries : 0 .. ClientMaxRetries]
    /\ tasks = [c \in CallIds |->
                  [pc |-> "Idle", attempt |-> 0, calls |-> 0, wakes |-> 0,
                   inflight |-> FALSE, lastOutcome |-> NoOutcome, result |-> None]]

tasksFrame ==
    <<shared, retryVars, builderVars, classifierVars, ebuilderVars, encoderVars, clientVars,
      cbuilderVars, twin, cancelled>>

\* Call c is issued: retry(self.retry_strategy, self.max_retries, ..) is entered.
TaskEnter(c) ==
    /\ tasks[c].pc = "Idle"
    /\ tasks' = [tasks EXCEPT ![c].pc = "Attempting", ![AttemptOwner(c)].attempt = 0]
    /\ UNCHANGED tasksFrame

\* `operation().await` of call c, first half: its closure is invoked and waits
\* for the transport.
TaskInvoke(c) ==
    /\ tasks[c].pc = "Attempting"
    /\ ~tasks[c].inflight
    /\ tasks' = [tasks EXCEPT ![c].calls = @ + 1, ![c].inflight = TRUE]
    /\ UNCHANGED tasksFrame

\* `operation().await` of call c, second half: the closure returns and retry
\* takes the arm on its outcome.
TaskReturn(c) ==
    /\ tasks[c].pc = "Attempting"
    /\ tasks[c].inflight
    /\ \E o \in TaskOutcomes :
        LET outcome == [ok |-> o.ok, kind |-> o.kind, n |-> tasks[c].calls]
            step == RetryStep(shared.retry_strategy, shared.max_retries,
                              tasks[AttemptOwner(c)].attempt, outcome, overflow_checks)
        IN  tasks' = [tasks EXCEPT ![c].pc = step.pc, ![c].inflight = FALSE,
                                   ![c].lastOutcome = outcome, ![c].result = step.ret]
    /\ UNCHANGED tasksFrame

\* The sleep of call c is over: `attempt += 1`.
TaskWake(c) ==
    /\ tasks[c].pc = "Delaying"
    /\ tasks' = [tasks EXCEPT ![c].pc = "Attempting", ![c].wakes = @ + 1,
                              ![AttemptOwner(c)].attempt = @ + 1]
    /\ UNCHANGED tasksFrame

TasksNext ==
    \E c \in CallIds :
        \/ TaskEnter(c)
        \/ TaskInvoke(c)
        \/ TaskReturn(c)
        \/ TaskWake(c)

(***************************************************************************)
(* retry_blocking, src/src/retry.rs:51-87, run side by side with retry on    *)
(* the outcomes retry's operation returns.                                   *)
(***************************************************************************)
\* The mutant of retry_blocking's delay multiplies Linear by attempt.
BlockingDelayFromZero(s, att) ==
    CASE s.kind = "None" -> FromSecs0
      [] s.kind = "Constant" -> s.d
      [] s.kind = "Linear" -> FromMillis(WrappingMul(AsMillis(s.d), U64(att)))
      [] s.kind = "Exponential" ->
            FromMillis(WrappingMul(AsMillis(s.d), WrappingPow2(att)))
\* `let delay = match strategy { ... }` of retry_blocking.
BlockingDelay(s, att) ==
    CASE s.kind = "None" -> FromSecs0
      [] s.kind = "Constant" -> s.d
      [] s.kind = "Linear" -> FromMillis(WrappingMul(AsMillis(s.d), U64(att + 1)))
      [] s.kind = "Exponential" ->
            FromMillis(WrappingMul(AsMillis(s.d), WrappingPow2(att)))

\* One turn of retry_blocking after the operation returned `outcome`.
RetryBlockingStep(s, max, att, outcome, checks) ==
    IF s.kind = "None" THEN
        [pc |-> IF outcome.ok THEN "Succeeded" ELSE "Exhausted",
         ret |-> Some(outcome), delay |-> None]
    ELSE IF outcome.ok THEN [pc |-> "Succeeded", ret |-> Some(outcome), delay |-> None]
    ELSE IF att < max THEN
        IF checks /\ DelayOverflows(s, att)
        THEN [pc |-> "Panicked", ret |-> None, delay |-> None]
        ELSE [pc |-> "Delaying", ret |-> None, delay |-> Some(BlockingDelay(s, att))]
    ELSE [pc |-> "Exhausted", ret |-> Some(outcome), delay |-> None]

TwinIdle ==
    twin = [pc |-> "Idle", attempt |-> 0, calls |-> 0, delays |-> <<>>, result |-> None]

\* Both calls are entered with the same strategy and max_retries.
PairEnter ==
    /\ Enter("async")
    /\ twin.pc = "Idle"
    /\ twin' = [twin EXCEPT !.pc = "Attempting", !.attempt = 0]
    /\ UNCHANGED <<builderVars, classifierVars, ebuilderVars, encoderVars, clientVars,
                   cbuilderVars, tasksVars, cancelled>>

\* `match operation() { ... }` of retry_blocking: one invocation, which
\* returns `outcome`, and the arm it selects.
TwinAttempt(outcome) ==
    LET step == RetryBlockingStep(strategy, max_retries, twin.attempt, outcome,
                                  overflow_checks)
    IN  /\ twin.pc = "Attempting"
        /\ twin' = [twin EXCEPT !.pc = step.pc, !.calls = @ + 1, !.result = step.ret,
                                !.delays = IF IsSome(step.delay)
                                           THEN Append(@, step.delay[1]) ELSE @]

\* The operation returns the same outcome to both, to retry at its first poll.
PairAttempt ==
    /\ \E outcome \in Outcomes(calls + 1) :
        /\ AttemptWith("async", outcome)
        /\ TwinAttempt(outcome)
    /\ UNCHANGED <<builderVars, classifierVars, ebuilderVars, encoderVars, clientVars,
                   cbuilderVars, tasksVars, cancelled>>

\* The operation of retry is invoked and is Pending.
PairInvoke ==
    /\ Invoke("async")
    /\ UNCHANGED <<builderVars, classifierVars, ebuilderVars, encoderVars, clientVars,
                   cbuilderVars, tasksVars, cancelled, twin>>

\* The Pending operation of retry returns; retry_blocking's returns the same.
PairReturn ==
    /\ \E outcome \in Outcomes(calls) :
        /\ ReturnWith("async", outcome)
        /\ TwinAttempt(outcome)
    /\ UNCHANGED <<builderVars, classifierVars, ebuilderVars, encoderVars, clientVars,
                   cbuilderVars, tasksVars, cancelled>>

\* Both sleeps are over.
PairWake ==
    /\ Wake("async")
    /\ twin.pc = "Delaying"
    /\ twin' = [twin EXCEPT !.pc = "Attempting", !.attempt = @ + 1]
    /\ UNCHANGED <<builderVars, classifierVars, ebuilderVars, encoderVars, clientVars,
                   cbuilderVars, tasksVars, cancelled>>

PairNext ==
    \/ PairEnter
    \/ PairAttempt
    \/ PairInvoke
    \/ PairReturn
    \/ PairWake

(***************************************************************************)
(* Cancellation.  A call of the async client is a future: its caller        *)
(* cancels it by dropping it, which takes effect where the future is         *)
(* suspended, at an .await of retry (src/src/retry.rs:28 and 41).  A call of *)
(* retry_blocking occupies its caller's thread and cannot be cancelled.      *)
(***************************************************************************)
\* Whether the wait between attempts is a point where the call is suspended:
\* `tokio::time::sleep(delay).await` is, `std::thread::sleep(delay)` is not.
\* The mutant sleeps without suspending.
SleepSuspendsNever(m) == FALSE
SleepSuspends(m) == m = "async"

\* The call is suspended at `operation().await`, the operation Pending, or at
\* `tokio::time::sleep(delay).await`.
Suspended(m, p) ==
    /\ m = "async"
    /\ \/ p = "Attempting" /\ inflight # None
       \/ p = "Delaying" /\ SleepSuspends(m)

\* The caller cancels the call while an attempt is in flight or between attempts.
Cancel ==
    /\ mode = "async"
    /\ \/ pc = "Attempting" /\ inflight # None
       \/ pc = "Delaying"
    /\ cancelled = None
    /\ cancelled' = Some(pc)
    /\ pc' = IF Suspended(mode, pc) THEN "Cancelled" ELSE pc
    /\ UNCHANGED <<mode, strategy, max_retries, overflow_checks, attempt, calls, failures,
                   sleeps, lastOutcome, lastDelay, result, inflight>>
    /\ UNCHANGED <<builderVars, classifierVars, ebuilderVars, encoderVars, clientVars,
                   cbuilderVars, tasksVars, twin>>

CancelNext ==
    \/ RetryNext
    \/ Cancel

(***************************************************************************)
(* The specifications: each exercises one component and holds the others    *)
(* in their initial state.                                                  *)
(***************************************************************************)
RetryIdle ==
    /\ pc = "Idle"
    /\ mode = "async"
    /\ strategy = [kind |-> "None", d |-> FromSecs0]
    /\ max_retries = 0
    /\ overflow_checks = FALSE
    /\ attempt = 0
    /\ calls = 0
    /\ failures = 0
    /\ sleeps = 0
    /\ lastOutcome = NoOutcome
    /\ lastDelay = FromSecs0
    /\ result = None
    /\ inflight = None

ClassifierIdle ==
    /\ response = [status_code |-> 400,
                   body |-> [json |-> FALSE, status |-> None, code |-> None,
                             message |-> None, tooMany |-> FALSE, rateLimit |-> FALSE]]
    /\ classified = None

EBuilderIdle == EBuilderInit

ClientIdle ==
    /\ client = [api_key |-> "test-key", base_url |-> NEWS_API_URI]
    /\ endpoint = "sources"
    /\ request = [category |-> None, language |-> None, country |-> None]
    /\ validations = 0
    /\ sends = 0
    /\ lastSent = None
    /\ lastAnswer = None

EncoderIdle ==
    /\ encEndpoint = "sources"
    /\ encRequest = [category |-> None, language |-> None, country |-> None]
    /\ url = NEWS_API_URI
    /\ encodes = 0
    /\ firstUrl = None

CBuilderIdle ==
    /\ env = [present |-> FALSE, unicode |-> TRUE, value |-> ""]
    /\ cbuilder = None
    /\ explicitKey = None
    /\ made = None

TasksIdle ==
    /\ shared = [api_key |-> "test-key", base_url |-> NEWS_API_URI,
                 retry_strategy |-> [kind |-> "None", d |-> FromSecs0], max_retries |-> 0]
    /\ tasks = [c \in CallIds |->
                  [pc |-> "Idle", attempt |-> 0, calls |-> 0, wakes |-> 0,
                   inflight |-> FALSE, lastOutcome |-> NoOutcome, result |-> None]]

\* Every component but the retry call and the one a specification exercises.
Idle(b, c, eb, en, cl, cb, ts) ==
    /\ b => BuilderInit
    /\ c => ClassifierIdle
    /\ eb => EBuilderIdle
    /\ en => EncoderIdle
    /\ cl => ClientIdle
    /\ cb => CBuilderIdle
    /\ ts => TasksIdle
    /\ TwinIdle
    /\ cancelled = None

InitRetry == RetryInit /\ Idle(TRUE, TRUE, TRUE, TRUE, TRUE, TRUE, TRUE)
InitBuilder == RetryIdle /\ BuilderInit /\ Idle(FALSE, TRUE, TRUE, TRUE, TRUE, TRUE, TRUE)
InitClassifier ==
    RetryIdle /\ ClassifierInit /\ Idle(TRUE, FALSE, TRUE, TRUE, TRUE, TRUE, TRUE)
InitEverythingBuilder ==
    RetryIdle /\ EBuilderInit /\ Idle(TRUE, TRUE, FALSE, TRUE, TRUE, TRUE, TRUE)
InitEncoder == RetryIdle /\ EncoderInit /\ Idle(TRUE, TRUE, TRUE, FALSE, TRUE, TRUE, TRUE)
InitClient ==
    ClientRetryInit /\ ClientInit /\ Idle(TRUE, TRUE, TRUE, TRUE, FALSE, TRUE, TRUE)
InitClientBuilder ==
    RetryIdle /\ CBuilderInit /\ Idle(TRUE, TRUE, TRUE, TRUE, TRUE, FALSE, TRUE)
InitTasks == RetryIdle /\ TasksInit /\ Idle(TRUE, TRUE, TRUE, TRUE, TRUE, TRUE, FALSE)
InitPair == RetryInit /\ mode = "async" /\ Idle(TRUE, TRUE, TRUE, TRUE, TRUE, TRUE, TRUE)
InitCancel == RetryInit /\ Idle(TRUE, TRUE, TRUE, TRUE, TRUE, TRUE, TRUE)

SpecRetry == InitRetry /\ [][RetryNext]_vars
SpecBuilder == InitBuilder /\ [][BuilderNext]_vars
SpecClassifier == InitClassifier /\ [][ClassifierNext]_vars
SpecEverythingBuilder == InitEverythingBuilder /\ [][EBuilderNext]_vars
SpecEncoder == InitEncoder /\ [][EncoderNext]_vars
SpecClient == InitClient /\ [][ClientNext]_vars
SpecClientBuilder == InitClientBuilder /\ [][CBuilderNext]_vars
SpecTasks == InitTasks /\ [][TasksNext]_vars
SpecPair == InitPair /\ [][PairNext]_vars
SpecCancel == InitCancel /\ [][CancelNext]_vars

Init ==
    RetryInit /\ BuilderInit /\ ClassifierInit /\ EBuilderInit /\ EncoderInit /\ ClientInit
        /\ CBuilderInit /\ TasksInit /\ TwinIdle /\ cancelled = None
Next ==
    \/ RetryNext \/ BuilderNext \/ ClassifierNext \/ EBuilderNext \/ EncoderNext
    \/ ClientNext \/ CBuilderNext \/ TasksNext \/ PairNext \/ Cancel
Spec == Init /\ [][Next]_vars


(***************************************************************************)
(* The claims about the retry policy, checked under SpecRetry.              *)
(***************************************************************************)
Returning == {"Succeeded", "Exhausted"}
\* How many invocations of the operation have returned.
Completed == IF inflight = None THEN calls ELSE calls - 1
Ended == Returning \cup {"Panicked"}

\* C1: one call invokes the operation at most max_retries + 1 times, and exactly
\* max_retries + 1 times when the strategy is not None and every attempt fails.
C1_AttemptCount ==
    /\ calls <= max_retries + 1
    /\ (pc \in Ended /\ strategy.kind # "None" /\ failures = calls)
            => calls = max_retries + 1

\* C2: with strategy None the operation is invoked exactly once and nothing is
\* slept, whatever max_retries is and whether the attempt succeeds or fails; the
\* call returns that attempt's result.
C2_NoneSingleAttempt ==
    strategy.kind = "None" =>
        /\ sleeps = 0
        /\ calls <= 1
        /\ pc # "Delaying" /\ pc # "Panicked"
        /\ Completed = 1 =>
              /\ pc = (IF lastOutcome.ok THEN "Succeeded" ELSE "Exhausted")
              /\ result = Some(lastOutcome)
              /\ lastOutcome.n = 1

C2_Witness ==
    /\ strategy.kind = "None"
    /\ max_retries = MaxRetries
    /\ pc = "Exhausted"
    /\ calls = 1
    /\ ~lastOutcome.ok

\* C3: when every permitted attempt failed, the error returned is the error of
\* the last attempt, unchanged: not an earlier attempt's, not a wrapping error.
C3_LastErrorUnchanged ==
    pc = "Exhausted" =>
        /\ result = Some(lastOutcome)
        /\ ~result[1].ok
        /\ result[1].kind \in ErrKinds
        /\ result[1].n = calls

C3_Witness ==
    /\ pc = "Exhausted"
    /\ strategy.kind = "Linear"
    /\ max_retries = 2
    /\ calls = 3
    /\ failures = 3
    /\ result = Some([ok |-> FALSE, kind |-> "InvalidResponse", n |-> 3])

\* C4: the call stops at the first successful attempt: when attempt k is the first
\* to succeed the operation was invoked exactly k times, the call returns that
\* attempt's value, and no attempt or delay follows the success.
C4_StopsState ==
    /\ lastOutcome.ok => pc = "Succeeded"
    /\ pc = "Succeeded" =>
          /\ result = Some(lastOutcome)
          /\ lastOutcome.ok
          /\ lastOutcome.n = calls
          /\ failures = calls - 1
          /\ sleeps = failures
          /\ calls <= max_retries + 1
    /\ pc # "Succeeded" => failures = Completed

\* C4, as a property of behaviours: the state condition always holds and no
\* step leaves Succeeded.
C4_StopsAtFirstSuccess ==
    /\ []C4_StopsState
    /\ [][pc = "Succeeded" => UNCHANGED <<pc, calls, sleeps, attempt, result>>]_vars

C4_Witness ==
    /\ pc = "Succeeded"
    /\ strategy.kind = "Constant"
    /\ max_retries = MaxRetries
    /\ calls = 3
    /\ failures = 2

\* The exact product d * k, in half milliseconds, for a multiplier k = m * 2^e.
HalfMillis(d) ==
    IF d.half = 0 THEN Norm(d.ms.m, d.ms.e + 1)
    ELSE Norm(2 * d.ms.m * Pow2(d.ms.e) + 1, 0)
ExactDelay(s, att) ==
    CASE s.kind = "Constant" -> HalfMillis(s.d)
      [] s.kind = "Linear" -> Product(HalfMillis(s.d), U64(att + 1))
      [] s.kind = "Exponential" -> Product(HalfMillis(s.d), [m |-> 1, e |-> att])

\* C5: the delay before the retry with index i is exactly d for Constant(d),
\* d * (i + 1) for Linear(d) and d * 2^i for Exponential(d).
C5_DelayExact ==
    pc = "Delaying" => HalfMillis(lastDelay) = ExactDelay(strategy, attempt)

\* C6: the wait lies strictly between attempts: a delay is entered only after a
\* failed attempt that has retries left, every delay leads to another attempt,
\* none precedes the first attempt or follows the final one, and Succeeded and
\* Exhausted are terminal.
C6_DelayState ==
    /\ pc = "Delaying" =>
          /\ ~lastOutcome.ok
          /\ lastOutcome.n = calls
          /\ calls >= 1
          /\ attempt < max_retries
          /\ strategy.kind # "None"
          /\ sleeps = calls
    /\ pc \in {"Idle", "Attempting"} => sleeps = Completed
    /\ calls = 0 => sleeps = 0
    /\ pc \in Ended => sleeps = calls - 1

\* C6, as a property of behaviours: the state condition always holds, a delay
\* leads to an attempt and a returned call takes no further step.
C6_DelayBetweenAttempts ==
    /\ []C6_DelayState
    /\ [][/\ pc = "Delaying" => (pc' = "Attempting" /\ sleeps' = sleeps /\ calls' = calls)
          /\ (pc = "Attempting" /\ sleeps > 0 /\ inflight = None) => calls' = calls + 1
          /\ pc \in Returning => UNCHANGED vars]_vars

C6_Witness ==
    /\ pc = "Delaying"
    /\ calls = 2
    /\ sleeps = 2
    /\ attempt = 1
    /\ max_retries = MaxRetries

(***************************************************************************)
(* The claims about the top-headlines builder, checked under SpecBuilder.   *)
(***************************************************************************)
\* C7: build fails exactly when sources is set together with country or with
\* category, and a successful build returns a request carrying exactly the
\* fields that were set.
C7_BuildConflict ==
    built # None =>
        LET r == built[1]
            conflict == given["sources"] # None
                            /\ (given["country"] # None \/ given["category"] # None)
        IN  /\ r.ok <=> ~conflict
            /\ r.ok =>
                  /\ r.value.country = given["country"]
                  /\ r.value.category = given["category"]
                  /\ r.value.sources = given["sources"]
                  /\ given["search_term"] # None
                        => r.value.search_term = given["search_term"][1]
                  /\ given["page_size"] # None
                        => r.value.page_size = given["page_size"][1]
                  /\ given["page"] # None => r.value.page = given["page"][1]

C7_Witness ==
    /\ built # None
    /\ ~built[1].ok
    /\ given["sources"] = Some("bbc-news")
    /\ given["category"] = Some("Business")
    /\ given["country"] = None

(***************************************************************************)
(* The claims about the error classifier, checked under SpecClassifier.     *)
(***************************************************************************)
\* The taxonomy value the specification gives each known wire string.
WireTaxonomy ==
    [w \in KnownWireCodes |->
        CASE w = "apiKeyDisabled" -> "ApiKeyDisabled"
          [] w = "apiKeyExhausted" -> "ApiKeyExhausted"
          [] w = "apiKeyInvalid" -> "ApiKeyInvalid"
          [] w = "apiKeyMissing" -> "ApiKeyMissing"
          [] w = "parameterInvalid" -> "ParameterInvalid"
          [] w = "parametersMissing" -> "ParametersMissing"
          [] w = "rateLimited" -> "RateLimited"
          [] w = "sourcesTooMany" -> "SourcesTooMany"
          [] w = "sourceDoesNotExist" -> "SourceDoesNotExist"]

Taxonomy == {WireTaxonomy[w] : w \in KnownWireCodes} \cup {"UnexpectedError"}

\* The body is a JSON error object {status, code?, message?} with a string status.
Parses(body) == body.json /\ body.status # None
HasKnownCode(body) ==
    Parses(body) /\ body.code # None /\ body.code[1] \in KnownWireCodes

\* C8: a body that parses as {status, code, message} with one of the nine known
\* codes is classified as InvalidResponse with the corresponding taxonomy value,
\* whatever the HTTP status code, carrying the body's status and message.
C8_KnownCodeMapped ==
    (classified # None /\ HasKnownCode(response.body) /\ response.body.message # None)
        => classified[1] = [variant |-> "InvalidResponse",
                            status |-> response.body.status[1],
                            code |-> WireTaxonomy[response.body.code[1]],
                            message |-> response.body.message[1]]

C8_Witness ==
    /\ classified # None
    /\ response.status_code = 429
    /\ response.body.json
    /\ response.body.status = Some("error")
    /\ response.body.code = Some("apiKeyInvalid")
    /\ response.body.message = Some("m")
    /\ classified[1].code = "ApiKeyInvalid"

\* C9: when the body yields no known code (it does not parse, or its code is
\* absent or unrecognised) the code is RateLimited for status 429 and
\* UnexpectedError for every other status.
C9_StatusFallback ==
    (classified # None /\ ~HasKnownCode(response.body))
        => classified[1].code =
              (IF response.status_code = 429 THEN "RateLimited" ELSE "UnexpectedError")

C9_Witness ==
    /\ classified # None
    /\ response.status_code = 429
    /\ response.body.json
    /\ response.body.status = Some("error")
    /\ response.body.code = Some("maintenance")
    /\ classified[1].code = "RateLimited"

\* C10: the classifier is total: for every status code and body it returns one
\* InvalidResponse whose code is one of the ten taxonomy values, never Unknown.
C10_ClassifierTotal ==
    /\ classified = None => ENABLED Classify
    /\ classified # None =>
          /\ classified[1].variant = "InvalidResponse"
          /\ classified[1].code \in Taxonomy
          /\ Cardinality(Taxonomy) = 10
          /\ classified[1].code # "Unknown"

C10_Witness ==
    /\ classified # None
    /\ ~response.body.json
    /\ response.status_code = 500
    /\ classified[1].code = "UnexpectedError"
    /\ classified[1].message = "Failed to parse error response"

(***************************************************************************)
(* The claims about the query encoders, checked under SpecEncoder.          *)
(***************************************************************************)
Keys(pairs) == [i \in 1 .. Len(pairs) |-> pairs[i][1]]
\* The keys the encoder left in the url, once it has run.
EncodedKeys == Keys(url.query[1])
HasEncoded(e) == encEndpoint = e /\ encodes > 0 /\ IsSome(url.query)

HeadlinesKeyOrder == <<"country", "category", "sources", "q", "pageSize", "page">>
HeadlinesEmits(req, key) ==
    CASE key = "country" -> req.country # None
      [] key = "category" -> req.category # None
      [] key = "sources" -> req.sources # None
      [] key = "q" -> req.search_term # ""
      [] key = "pageSize" -> req.page_size > 1
      [] key = "page" -> req.page > 1

\* C15: for every Headlines request the encoder emits the keys country,
\* category, sources, q, pageSize, page in this order, country/category/sources
\* iff set, q iff the search term is not empty, pageSize iff above 1, page iff
\* above 1, and no other key.
C15_HeadlinesQueryPairs ==
    (encEndpoint = "top_headlines" /\ encodes > 0) =>
        /\ IsSome(url.query)
        /\ EncodedKeys = SelectSeq(HeadlinesKeyOrder,
                                   LAMBDA k : HeadlinesEmits(encRequest, k))

\* A Headlines request with every key emitted.
C15_Witness ==
    /\ HasEncoded("top_headlines")
    /\ encRequest.page_size = 20
    /\ EncodedKeys = HeadlinesKeyOrder

EverythingKeyOrder == <<"q", "language", "from", "to", "pageSize", "page">>
EverythingEmits(req, key) ==
    CASE key = "q" -> TRUE
      [] key = "language" -> req.language # None
      [] key = "from" -> req.start_date # None
      [] key = "to" -> req.end_date # None
      [] key = "pageSize" -> req.page_size > 0
      [] key = "page" -> req.page > 1

\* C16: for every Everything request the encoder emits the keys q, language,
\* from, to, pageSize, page in this order, q always (an empty search term
\* included), language/from/to iff set, pageSize iff above 0, page iff above 1.
C16_EverythingQueryPairs ==
    (encEndpoint = "everything" /\ encodes > 0) =>
        /\ IsSome(url.query)
        /\ EncodedKeys = SelectSeq(EverythingKeyOrder,
                                   LAMBDA k : EverythingEmits(encRequest, k))

\* An Everything request with an empty search term and every key emitted.
C16_Witness ==
    /\ HasEncoded("everything")
    /\ encRequest.search_term = ""
    /\ url.query[1][1] = Pair("q", "")
    /\ EncodedKeys = EverythingKeyOrder

SourcesKeyOrder == <<"category", "language", "country">>
SourcesEmits(req, key) ==
    CASE key = "category" -> req.category # None
      [] key = "language" -> req.language # None
      [] key = "country" -> req.country # None

\* C17: for every Sources request the encoder emits the keys category,
\* language, country in this order, each iff its field is set, and no pair at
\* all when none is set.
C17_SourcesQueryPairs ==
    (encEndpoint = "sources" /\ encodes > 0) =>
        /\ IsSome(url.query)
        /\ EncodedKeys = SelectSeq(SourcesKeyOrder,
                                   LAMBDA k : SourcesEmits(encRequest, k))
        /\ (encRequest.category = None /\ encRequest.language = None
                /\ encRequest.country = None) => url.query[1] = <<>>

\* A Sources request with its three fields set, encoded.
C17_Witness ==
    /\ HasEncoded("sources")
    /\ EncodedKeys = SourcesKeyOrder

\* C18: encoding a request a second time leaves the query pairs the first
\* encoding left, in the same order, and the request is the one that was
\* handed in, for each of the three endpoints.
C18_EncodingIdempotent ==
    /\ encodes >= 1 => encRequest = firstUrl[1].request
    /\ encodes >= 2 => url.query = firstUrl[1].url.query

\* A request encoded twice into a url that has several pairs.
C18_Witness ==
    /\ encodes = 2
    /\ IsSome(url.query)
    /\ Len(url.query[1]) >= 3

(***************************************************************************)
(* The claim about the builders' defaults, checked under SpecBuilder and    *)
(* SpecEverythingBuilder.                                                   *)
(***************************************************************************)
\* The request the specification gives a builder no setter was called on.
HeadlinesDefaults ==
    [country |-> None, category |-> None, sources |-> None, search_term |-> "",
     page_size |-> 1, page |-> 1]
EverythingDefaults ==
    [search_term |-> "", search_in |-> <<>>, sources |-> None, domains |-> None,
     exclude_domains |-> None, start_date |-> None, end_date |-> None,
     language |-> None, sort_by |-> None, page_size |-> 1, page |-> 1]
FreshHeadlinesBuilt == built # None /\ \A f \in Fields : given[f] = None
FreshEverythingBuilt == ebuilt # None /\ \A f \in EFields : egiven[f] = None

\* C19: a request built from a fresh Headlines or Everything builder, on which
\* page and page_size (and every other field) were never set, has page = 1,
\* pageSize = 1, an empty search term and no other filter.
C19_FreshBuilderDefaults ==
    /\ FreshHeadlinesBuilt => built[1] = Ok(HeadlinesDefaults)
    /\ FreshEverythingBuilt => ebuilt[1] = EverythingDefaults

(***************************************************************************)
(* The claims about the endpoint operations, checked under SpecClient.      *)
(***************************************************************************)
\* The request is a Headlines or Everything request out of the range the
\* specification gives page and pageSize.
OutOfRange ==
    /\ endpoint \in {"top_headlines", "everything"}
    /\ request.page_size < 1 \/ request.page_size > 100 \/ request.page < 1

\* C11: a Headlines or Everything request whose pageSize is outside 1..100 or
\* whose page is below 1 is rejected with ParameterInvalid before any network
\* call: nothing is sent for it, and the call returns that failure.
C11_OutOfRangeRejected ==
    OutOfRange =>
        /\ sends = 0
        /\ pc \in Returning =>
            /\ ~result[1].ok
            /\ result[1].kind = "InvalidResponse"
            /\ result[1].value.code = "ParameterInvalid"

\* The request is a Headlines request that names sources together with country
\* or category.
FailsValidation ==
    /\ endpoint = "top_headlines"
    /\ request.sources # None
    /\ request.country # None \/ request.category # None

\* C12: when get_top_headlines is given a request that fails local validation,
\* under every strategy and max_retries the transport is never invoked,
\* validation runs once, no retry delay is spent, and the call returns
\* InvalidRequest.
C12_ValidationFailureImmediate ==
    (FailsValidation /\ calls > 0) =>
        /\ sends = 0
        /\ validations = 1
        /\ sleeps = 0
        /\ pc = "Exhausted"
        /\ result[1].kind = "InvalidRequest"

\* The last attempt was answered 2xx with a body its response model cannot be
\* decoded from.
DecodeFailed ==
    /\ calls > 0
    /\ lastSent # None
    /\ lastAnswer # None
    /\ lastAnswer[1].kind = "Response"
    /\ lastAnswer[1].status \in 200 .. 299
    /\ ~lastOutcome.ok
    /\ lastOutcome.kind = "InvalidRequest"

\* C13: when the transport answers 2xx with a body that cannot be decoded, the
\* call returns InvalidRequest with the parser's message at once, under every
\* strategy and max_retries: no delay and no further attempt follows, so a call
\* whose first answer is undecodable invokes the transport exactly once.
C13_DecodeFailureNotRetried ==
    DecodeFailed =>
        /\ pc = "Exhausted"
        /\ result = Some(lastOutcome)
        /\ failures = 1 => sends = 1 /\ sleeps = 0

\* The body decodes into the response model of the endpoint e.
Decodable(e, body) ==
    /\ body.json
    /\ body.status # None
    /\ IF e = "sources" THEN body.sources # None
       ELSE /\ body.totalResults # None
            /\ body.articles # None
            /\ \A i \in 1 .. Len(body.articles[1]) : body.articles[1][i].title # None
\* The value v is what the body holds.
Decodes(e, v, body) ==
    /\ v.status = body.status[1]
    /\ IF e = "sources" THEN v.sources = body.sources[1]
       ELSE /\ v.total_results = body.totalResults[1]
            /\ Len(v.articles) = Len(body.articles[1])
            /\ \A i \in 1 .. Len(v.articles) :
                 v.articles[i].title = body.articles[1][i].title[1]
Answered == calls > 0 /\ lastAnswer # None /\ lastAnswer[1].kind = "Response"

\* C20: the outcome of an attempt is the one its answer determines: a 2xx
\* answer with a decodable body gives the decoded response (totalResults and
\* the articles in body order), every other status gives the classifier's
\* InvalidResponse (401 with code apiKeyInvalid gives ApiKeyInvalid and the
\* body's message); the two are never crossed.
C20_OutcomeFollowsAnswer ==
    Answered =>
        LET answer == lastAnswer[1]
        IN  /\ (answer.status \in 200 .. 299 /\ Decodable(endpoint, answer.body)) =>
                /\ lastOutcome.ok
                /\ Decodes(endpoint, lastOutcome.value, answer.body)
            /\ answer.status \notin 200 .. 299 =>
                /\ ~lastOutcome.ok
                /\ lastOutcome.kind = "InvalidResponse"
                /\ lastOutcome.value.variant = "InvalidResponse"
                /\ lastOutcome.value.code \in Taxonomy
                /\ (answer.status = 401 /\ answer.body.code = Some("apiKeyInvalid")) =>
                    /\ lastOutcome.value.code = "ApiKeyInvalid"
                    /\ lastOutcome.value.message = "Your API key is invalid"
            /\ lastOutcome.ok =>
                answer.status \in 200 .. 299 /\ Decodable(endpoint, answer.body)

\* get_everything answered 200 with the two-article body after a failed attempt.
C20_Witness ==
    /\ Answered
    /\ endpoint = "everything"
    /\ failures >= 1
    /\ lastAnswer[1].status = 200
    /\ lastOutcome.ok
    /\ lastOutcome.value.total_results = 2
    /\ lastOutcome.value.articles = <<[title |-> "First"], [title |-> "Second"]>>

(***************************************************************************)
(* The claim about the kinds of failure, checked under SpecRetry.           *)
(***************************************************************************)
\* The last invocation failed, under a strategy that retries, with retries left.
FailedWithRetriesLeft ==
    /\ pc \notin {"Idle", "Attempting"}
    /\ ~lastOutcome.ok
    /\ strategy.kind # "None"
    /\ attempt < max_retries

\* C14: with a strategy other than None, every failed attempt that still has
\* retries left is followed by another attempt, whatever the kind of the
\* failure (transport, classified API error, invalid header value): the call
\* goes on to the delay before the next attempt.
C14_EveryFailureRetried ==
    FailedWithRetriesLeft => pc = "Delaying"

(***************************************************************************)
(* The claim about client construction, checked under SpecClientBuilder.    *)
(***************************************************************************)
Constructed == made # None
\* NEWS_API_KEY holds a value std::env::var can hand out.
EnvReadable == env.present /\ env.unicode

\* C21 as stated: construction through the builder fails, by returning an
\* error, exactly when no key was given explicitly and NEWS_API_KEY is unset,
\* and an explicit key is the client's key.
C21_FailsExactlyWithoutKey ==
    Constructed =>
        /\ ~made[1].ok <=> (explicitKey = None /\ ~env.present)
        /\ ~made[1].ok => made[1].by = "build"
        /\ (made[1].ok /\ explicitKey # None) => made[1].value.api_key = explicitKey[1]

\* C21, amended: build makes a client exactly when a key was given explicitly
\* or std::env::var reads one from NEWS_API_KEY; with no explicit key and the
\* variable unset or not valid Unicode no client is made (build returns the
\* error, from_env panics); an explicit key is the client's key even if the
\* variable is set, and every client made holds the explicit key or else the
\* variable's value.
C21_BuildFailsWithoutReadableKey ==
    Constructed =>
        /\ made[1].ok => made[1].by = "build"
        /\ made[1].by = "build" => (made[1].ok <=> (explicitKey # None \/ EnvReadable))
        /\ made[1].by = "panic" => (explicitKey = None /\ ~EnvReadable)
        /\ (explicitKey = None /\ ~EnvReadable) => ~made[1].ok
        /\ (made[1].ok /\ explicitKey # None) => made[1].value.api_key = explicitKey[1]
        /\ (made[1].ok /\ explicitKey = None) => made[1].value.api_key = env.value

\* A client built with an explicit key while the variable is set as well.
C21_Witness ==
    /\ Constructed
    /\ made[1].ok
    /\ env.present /\ env.unicode
    /\ explicitKey = Some("explicit-key")
    /\ made[1].value.api_key = "explicit-key"

(***************************************************************************)
(* The claim about termination, checked under SpecRetry.                    *)
(***************************************************************************)
\* C22: a call terminates by returning a success or an error.  The loop cannot
\* go round forever (the operation is invoked at most max_retries + 1 times),
\* a call that has ended has returned a result, and once max_retries + 1
\* invocations have failed the call has returned the error.
C22_CallReturns ==
    /\ calls <= max_retries + 1
    /\ pc \in Ended => (pc \in Returning /\ result # None)
    /\ (strategy.kind # "None" /\ failures = max_retries + 1)
            => (pc = "Exhausted" /\ result = Some(lastOutcome))

(***************************************************************************)
(* The claim about concurrent calls, checked under SpecTasks.               *)
(***************************************************************************)
\* What call c has done so far agrees with its own counter and its own outcomes.
OwnProgress(c) ==
    LET t == tasks[c]
    IN  /\ t.attempt = t.wakes
        /\ t.calls <= shared.max_retries + 1
        /\ t.pc = "Idle" => (t.calls = 0 /\ t.attempt = 0)
        /\ t.inflight => t.pc = "Attempting"
        /\ t.pc = "Attempting" => t.calls = t.attempt + (IF t.inflight THEN 1 ELSE 0)
        /\ t.pc \in {"Delaying", "Succeeded", "Exhausted"} => t.calls = t.attempt + 1
        /\ t.pc = "Succeeded" => (t.lastOutcome.ok /\ t.result = Some(t.lastOutcome))
        /\ t.pc = "Exhausted" => (~t.lastOutcome.ok /\ t.result = Some(t.lastOutcome))
        /\ t.pc = "Delaying" => (~t.lastOutcome.ok /\ t.attempt < shared.max_retries)

\* A step of one call leaves the other call and the client as they were.
OneCallSteps ==
    /\ shared' = shared
    /\ \A c \in CallIds :
            tasks'[c] # tasks[c] => \A d \in CallIds \ {c} : tasks'[d] = tasks[d]

\* C23: two calls in flight on one async client share no mutable state.  Each
\* has its own attempt counter, counting from 0 the delays it has itself slept,
\* each invokes its operation at most max_retries + 1 times and ends on its own
\* outcomes whatever the other has done, a step of one leaves the other
\* untouched, and the client's key, base URL, strategy and max_retries never
\* change.
C23_CallsIndependent ==
    /\ [](\A c \in CallIds : OwnProgress(c))
    /\ [][OneCallSteps]_vars

\* One call waits for its third attempt to return while the other, entered on
\* the same client, is still in its first delay.
C23_Witness ==
    /\ tasks[1].pc = "Attempting" /\ tasks[1].attempt = 2 /\ tasks[1].inflight
    /\ tasks[2].pc = "Delaying" /\ tasks[2].attempt = 0

(***************************************************************************)
(* The claim about the two call styles, checked under SpecPair.             *)
(***************************************************************************)
\* C24: retry_blocking and retry agree.  Given the same strategy, the same
\* max_retries and the same outcome of every invocation, the blocking call is
\* at every step where the non-blocking call is: as many of its attempts have
\* returned, it has slept the same delays and it has returned the same result.
C24_BlockingAgrees ==
    /\ twin.pc = pc
    /\ twin.attempt = attempt
    /\ twin.calls = Completed
    /\ twin.result = result
    /\ Len(twin.delays) = sleeps
    /\ sleeps > 0 => twin.delays[sleeps] = lastDelay

\* Both calls have used up three retries of a strategy whose delays grow.
C24_Witness ==
    /\ pc = "Exhausted" /\ twin.pc = "Exhausted"
    /\ strategy.kind \in {"Linear", "Exponential"}
    /\ AsMillis(strategy.d) # U64(0)
    /\ Len(twin.delays) = 3
    /\ twin.delays[3] # twin.delays[1]

(***************************************************************************)
(* The claim about cancellation, checked under SpecCancel.                  *)
(***************************************************************************)
\* No attempt starts and no invocation is made once cancellation was asked for.
NothingAfterCancel ==
    cancelled # None => (pc' = pc /\ calls' = calls /\ attempt' = attempt)

\* C25: cancellation of a call is honoured during the delay between attempts
\* as well as during an attempt in flight: the call stops where it is
\* cancelled, and once cancelled while it waits between attempts it never
\* starts another attempt.
C25_CancelHonoured ==
    /\ [](cancelled # None => pc = "Cancelled")
    /\ [][NothingAfterCancel]_vars

\* A call was cancelled in the delay after its second failed attempt.
C25_Witness ==
    /\ cancelled = Some("Delaying")
    /\ pc = "Cancelled"
    /\ calls = 2 /\ sleeps = 2 /\ attempt = 1

(***************************************************************************)
(* The claim about the request headers, checked under SpecClient.           *)
(***************************************************************************)
\* The client's key makes a valid header value.
KeyFormsHeader == HeaderValue_from_str("Bearer " \o client.api_key).ok

\* The headers of the latest send are the two the client sets, and no other.
SentHeaders ==
    lastSent # None =>
        lastSent[1].headers = [AUTHORIZATION |-> "Bearer " \o client.api_key,
                               USER_AGENT |-> NEWS_API_CLIENT_USER_AGENT]

\* C26 as claimed: every attempt is sent with Authorization: Bearer <key> and
\* the fixed User-Agent and nothing else, and when the key cannot form a header
\* value every attempt fails with InvalidHeaderValue before the transport is
\* invoked.
C26_HeadersOnEveryAttempt ==
    /\ SentHeaders
    /\ (~KeyFormsHeader /\ calls > 0) =>
            /\ sends = 0
            /\ ~lastOutcome.ok
            /\ lastOutcome.kind = "InvalidHeaderValue"

\* C26 as amended: every attempt that is sent carries Authorization: Bearer
\* <key> and the fixed User-Agent and nothing else, and every attempt that
\* get_top_headlines' request check lets through is sent when the key forms a
\* header value; when the key cannot form one nothing is ever sent, and the
\* attempt fails with InvalidHeaderValue unless get_top_headlines' request
\* check has already failed it with InvalidRequest.
C26_HeadersOnEverySend ==
    /\ SentHeaders
    /\ (KeyFormsHeader /\ ~FailsValidation) => sends = calls
    /\ (~KeyFormsHeader /\ calls > 0) =>
            /\ sends = 0
            /\ ~lastOutcome.ok
            /\ lastOutcome.kind =
                    IF FailsValidation THEN "InvalidRequest" ELSE "InvalidHeaderValue"

\* A second attempt was sent with a good key, or failed on a bad one.
C26_Witness ==
    /\ calls = 2
    /\ \/ KeyFormsHeader /\ sends = 2 /\ lastSent # None
       \/ ~KeyFormsHeader /\ ~FailsValidation /\ lastOutcome.kind = "InvalidHeaderValue"

(***************************************************************************)
(* The claim about omitted fields, checked under SpecEncoder.               *)
(***************************************************************************)
\* The query keys of the filters that are set on a request of the endpoint e.
SetFilters(e, req) ==
    CASE e = "top_headlines" ->
            {k \in {"country", "category", "sources"} : HeadlinesEmits(req, k)}
      [] e = "sources" ->
            {k \in {"category", "language", "country"} : SourcesEmits(req, k)}
      [] e = "everything" ->
            {k \in {"language", "from", "to"} : EverythingEmits(req, k)}
                \cup (IF req.sources # None THEN {"sources"} ELSE {})
                \cup (IF req.domains # None THEN {"domains"} ELSE {})
                \cup (IF req.exclude_domains # None THEN {"excludeDomains"} ELSE {})
                \cup (IF req.sort_by # None THEN {"sortBy"} ELSE {})
                \cup (IF req.search_in # <<>> THEN {"searchIn"} ELSE {})

\* C27: the encoder omits a field only when it is absent or at its default:
\* every filter that is set on the request (for Everything sources, domains,
\* excludeDomains, sortBy and searchIn as well as language, from and to) has a
\* pair in the encoded query.
C27_SetFiltersEncoded ==
    (encodes > 0 /\ IsSome(url.query)) =>
        \A k \in SetFilters(encEndpoint, encRequest) :
            \E i \in 1 .. Len(EncodedKeys) : EncodedKeys[i] = k

(***************************************************************************)
(* The claim about built Headlines requests, checked under SpecBuilder.     *)
(***************************************************************************)
\* The error of the client's call-time check.
SourcesConflict ==
    Failure(ApiClientError("InvalidRequest",
                           "Cannot specify sources with country or category"))

\* C28: every request a successful build of GetTopHeadlinesRequestBuilder
\* returns keeps sources apart from country and category, so
\* top_headlines_validate_request accepts it and no attempt of get_top_headlines
\* on it, with any client and any answer of the transport, fails with 'Cannot
\* specify sources with country or category'.
C28_BuiltRequestsValidate ==
    (built # None /\ built[1].ok) =>
        LET req == built[1].value
        IN  /\ ~(IsSome(req.sources) /\ (IsSome(req.country) \/ IsSome(req.category)))
            /\ top_headlines_validate_request(req).ok
            /\ \A self \in [api_key : ApiKeys, base_url : {NEWS_API_URI}] :
                \A answer \in TransportAnswers :
                    /\ get_top_headlines(self, req, answer).validations = 1
                    /\ get_top_headlines(self, req, answer).outcome # SourcesConflict

\* A build succeeded for a request that names sources and a page size.
C28_Witness ==
    /\ built # None
    /\ built[1].ok
    /\ built[1].value.sources = Some("bbc-news")
    /\ given["page_size"] # None

(***************************************************************************)
(* The claim about the delay arithmetic, checked under SpecRetry.           *)
(***************************************************************************)
\* a >= b for two u64 kept as [m, e].
AtLeast(a, b) ==
    IF b.m = 0 THEN TRUE
    ELSE IF a.m = 0 THEN FALSE
    ELSE IF a.e >= b.e THEN a.e - b.e >= 30 \/ a.m * Pow2(a.e - b.e) >= b.m
    ELSE b.e - a.e < 30 /\ a.m >= b.m * Pow2(b.e - a.e)

\* The whole milliseconds the claim gives the delay before retry att.
ExactMillis(s, att) ==
    CASE s.kind = "Linear" -> Product(AsMillis(s.d), U64(att + 1))
      [] s.kind = "Exponential" -> Product(AsMillis(s.d), [m |-> 1, e |-> att])
      [] OTHER -> AsMillis(s.d)

\* C30: the delay computation never overflows or wraps.  No call ends in the
\* overflow panic, every delay of Linear and Exponential is the exact product
\* of the base delay's whole milliseconds with attempt + 1 or 2^attempt, and a
\* delay is never shorter than the one before it.
C30_DelayNeverOverflows ==
    /\ pc # "Panicked"
    /\ (pc = "Delaying" /\ strategy.kind \in {"Linear", "Exponential"}) =>
            AsMillis(lastDelay) = ExactMillis(strategy, attempt)
    /\ (pc = "Delaying" /\ attempt > 0) =>
            AtLeast(AsMillis(lastDelay), AsMillis(Delay(strategy, attempt - 1)))

====
